---- MODULE Spec2Model ----
(***************************************************************************)
(* CityFlow Analytics: the metrics and aggregation engine                  *)
(* (src/processors/metrics.py, src/processors/aggregation.py).             *)
(*                                                                         *)
(* A relation (pandas DataFrame) is a record [columns, rows]: the set of   *)
(* columns it has and the sequence of its rows (for the relations of the   *)
(* coordinate resolver, the set of the coordinate columns it has).  A null *)
(* cell (NaN / None / NaT / pd.NA) is the value Null.  A function that     *)
(* raises returns the record [raised].                                     *)
(*                                                                         *)
(* A float is represented by the real number it stands for:                *)
(*   - a coordinate is [base, span, unit] = base + span * unit, in         *)
(*     hundredths of a degree, unit being a value of _hash_to_unit;        *)
(*   - a unit value is <<c, l3, l2, l1, l0>>, base-65536 limbs of the      *)
(*     numerator over 16^16 (c = 1 only for the value 1.0);                *)
(*   - a mean, a quantile or a ratio is a rational <<num, den>>, den > 0;  *)
(*     <<1, 0>> is +inf.                                                   *)
(***************************************************************************)
EXTENDS Integers, Sequences, FiniteSets, TLC

VARIABLES
    \* CoordinateResolver (_enrich_comptage_with_coordinates)
    df_comptage,    \* the counter-reading relation given to the resolver
    df_bikes,       \* the same-day snapshot (bikes API feed), after column detection
    ref_df,         \* the static reference table (compteur_coordinates.json)
    enriched,       \* the relation returned by the resolver
    pc_coord,       \* "input" before the call, "done" after it
    \* _assign_fallback_coordinates, called run after run
    fb_frame,       \* the relation that reaches the fallback stage
    fb_result,      \* the relation the fallback stage returns
    fb_seen,        \* history: the synthetic coordinates each id got first, in any run
    pc_fb,          \* "input" before the call, "done" after it
    \* _hash_to_unit and the interpolation into the bounding box
    h_as_int,       \* int(digest[:16], 16) for the two axes, as limbs
    h_lat,          \* the synthetic latitude
    h_lon,          \* the synthetic longitude
    pc_hash,        \* "start", "lat" (latitude computed), "done"
    \* MetricEngine: one metric function called on a counter-reading relation
    m_df,           \* the relation given to the metric function
    m_param,        \* the function's parameters (thresholds, percentile, cap)
    m_local,        \* the flagged rows before the cap (anomalies), else Null
    m_result,       \* the relation the function returns
    pc_metric,      \* "input" before the call, "done" after it
    \* build_kpis
    k_aggregates,   \* the aggregates mapping, as the sequence of its [key, df] items
    k_result,       \* the relation build_kpis returns
    pc_kpi,         \* "input" before the call, "done" after it
    \* OutputWriter: _materialise_outputs saving a run into the database
    w_is_local,     \* config.is_local: MongoDB (TRUE) or DynamoDB (FALSE)
    w_date,         \* the date of the run being saved
    w_outputs,      \* the metrics_cityflow and correlations of the run being saved
    w_metrics,      \* write_metrics: the mapping it was given (metrics_for_db)
    w_pending,      \* write_metrics: the metric names its loop has still to write
    w_success_count,\* write_metrics: the writes that succeeded so far
    w_failed,       \* history: the metric names whose write failed in this call
    w_returned,     \* what write_metrics returned, Null before it returns
    db,             \* the collections (tables) metrics, correlations and reports
    w_run,          \* the number of runs saved or being saved
    pc_writer,      \* "idle", "write_metrics", "returned", "saved"
    \* lambda_handler: the fetch of the enabled sources into the raw bucket
    BUCKET,         \* BUCKET_NAME: Null when unset, else the name
    ENABLE,         \* ENABLE_SOURCES, split and stripped
    l_configured,   \* the sources whose URL (and API key) are set
    TRAFFIC_MODE,   \* TRAFFIC_MODE in lower case
    HTTP_RETRIES,   \* HTTP_RETRIES
    l_index,        \* the position in ENABLE of the source of the loop
    l_attempts,     \* _http_get: the attempts made for the source of the loop
    l_trace,        \* history: per source handled, the attempts and the outcome
    l_results,      \* results
    l_response,     \* what lambda_handler returned, Null before it returns
    s3_objects,     \* the keys put into the bucket
    pc_lambda       \* "start", "loop", "http_get", "write_jsonl", "returned"

coordVars == <<df_comptage, df_bikes, ref_df, enriched, pc_coord>>
fbVars == <<fb_frame, fb_result, fb_seen, pc_fb>>
hashVars == <<h_as_int, h_lat, h_lon, pc_hash>>

metricVars == <<m_df, m_param, m_local, m_result, pc_metric>>
kpiVars == <<k_aggregates, k_result, pc_kpi>>
writerVars == <<w_is_local, w_date, w_outputs, w_metrics, w_pending, w_success_count, w_failed, w_returned, db, w_run, pc_writer>>
lambdaVars == <<BUCKET, ENABLE, l_configured, TRAFFIC_MODE, HTTP_RETRIES, l_index, l_attempts, l_trace, l_results, l_response, s3_objects, pc_lambda>>

\* what an operation of one component leaves alone: the other components
coordOthers == <<fbVars, hashVars, metricVars, kpiVars, writerVars, lambdaVars>>
fbOthers == <<coordVars, hashVars, metricVars, kpiVars, writerVars, lambdaVars>>
hashOthers == <<coordVars, fbVars, metricVars, kpiVars, writerVars, lambdaVars>>
metricOthers == <<coordVars, fbVars, hashVars, kpiVars, writerVars, lambdaVars>>
kpiOthers == <<coordVars, fbVars, hashVars, metricVars, writerVars, lambdaVars>>
writerOthers == <<coordVars, fbVars, hashVars, metricVars, kpiVars, lambdaVars>>
lambdaOthers == <<coordVars, fbVars, hashVars, metricVars, kpiVars, writerVars>>

-----------------------------------------------------------------------------
(* Bounds of the model *)

\* largest number of rows of a counter-reading relation given to the resolver
MaxReadings == 2
\* largest number of rows of the same-day snapshot
MaxBikes == 2
\* largest number of rows of a relation given to a metric function
MaxMetricRows == 3
\* largest number of equal readings before the one spike of a spike relation
MaxQuiet == 17
\* largest number of rows of a daily aggregate
MaxKpiRows == 2
\* largest number of aggregates given to build_kpis
MaxAggregates == 2
\* largest number of readings of 0 before the reading of 500 (congestion scenario)
MaxCalm == 4
\* largest number of rows of the public-works relation
MaxChantiers == 2
\* largest number of rows of a counter-reading relation that lacks columns
MaxPartialRows == 2
\* largest number of counter readings given to calculate_all_metrics
MaxRunRows == 2
\* largest number of rows of each input of a correlator
MaxCorrelateRows == 2
\* largest number of rows of an input relation whose content is compared before and after a call
MaxFrameRows == 2
\* largest number of readings beside the one without a usable date_heure
MaxDatedRows == 2
\* rows of the relation given to calculate_debit_journalier and calculate_top_compteurs
MaxRankRows == 3
\* runs of process_day saved into the database
MaxRuns == 2
\* largest number of names in ENABLE_SOURCES
MaxSources == 2
\* largest value of HTTP_RETRIES
MaxRetries == 1

-----------------------------------------------------------------------------
(* Values *)

Null == [null |-> TRUE]

IsNull(v) == v = Null

\* counter ids of the model
CompteurIds == {"A", "B"}

RECURSIVE SeqsUpTo(_, _)
\* all sequences over S of length 0..n
SeqsUpTo(S, n) ==
    IF n = 0 THEN {<<>>}
    ELSE LET shorter == SeqsUpTo(S, n - 1)
         IN  shorter \cup {Append(s, x) : s \in {t \in shorter : Len(t) = n - 1}, x \in S}

\* the first row of seq satisfying Test, or Null
FirstMatch(seq, Test(_)) ==
    LET idx == {i \in 1..Len(seq) : Test(seq[i])}
    IN  IF idx = {} THEN Null
        ELSE seq[CHOOSE i \in idx : \A j \in idx : i <= j]

-----------------------------------------------------------------------------
(* _hash_to_unit: metrics.py 193-196 *)

\* one limb holds four hex digits
Base == 16 * 16 * 16 * 16

UnitZero == <<0, 0, 0, 0, 0>>

\* hashlib.sha256((value + str(offset)).encode("utf-8")).hexdigest()[:16] as four
\* 16-bit limbs, most significant first, for the ids of the model
Sha256Prefix(value, offset) ==
    CASE value = "A" /\ offset = 0 -> <<43600, 35873, 34812, 42351>>  \* aa508c2187fca56f
      [] value = "A" /\ offset = 1 -> <<5795, 28294, 63230, 54740>>   \* 16a36e86f6fed5d4
      [] value = "B" /\ offset = 0 -> <<1409, 27157, 24795, 38013>>   \* 05816a1560db947d
      [] value = "B" /\ offset = 1 -> <<23445, 3703, 37917, 461>>     \* 5b950e77941d01cd
      [] value = "C" /\ offset = 0 -> <<51353, 46039, 7199, 21005>>   \* c899b3d71c1f520d
      [] value = "C" /\ offset = 1 -> <<43910, 7617, 28892, 11843>>   \* ab861dc170dc2e43

RECURSIVE BitLength(_)
\* number of bits of n >= 0
BitLength(n) == IF n = 0 THEN 0 ELSE 1 + BitLength(n \div 2)

RECURSIVE Pow2(_)
Pow2(k) == IF k = 0 THEN 1 ELSE 2 * Pow2(k - 1)

\* float(as_int): the 64-bit integer <<l3, l2, l1, l0>> rounded to the nearest double
\* (53-bit significand, ties to even), as limbs <<c, l3, l2, l1, l0>>.  Only an
\* integer of more than 53 bits is rounded, and then its lowest 1..11 bits are.
IntToDouble(as_int) ==
    LET l3 == as_int[1]
        l2 == as_int[2]
        l1 == as_int[3]
        l0 == as_int[4]
        bits == 48 + BitLength(l3)
        shift == IF l3 = 0 THEN 0 ELSE IF bits > 53 THEN bits - 53 ELSE 0
        q == Pow2(shift)
        r == l0 % q
        down == l0 - r
        odd == (l0 \div q) % 2 = 1
        up == shift > 0 /\ (2 * r > q \/ (2 * r = q /\ odd))
        n0 == IF up THEN down + q ELSE down
        c0 == n0 \div Base
        n1 == l1 + c0
        c1 == n1 \div Base
        n2 == l2 + c1
        c2 == n2 \div Base
        n3 == l3 + c2
    IN  <<n3 \div Base, n3 % Base, n2 % Base, n1 % Base, n0 % Base>>

\* as_int / float(16**16): float(16**16) is 2^64 exactly, and dividing a double
\* by a power of two is exact, so the quotient is the rounded integer over 2^64
DivideBy16Pow16(as_int) == IntToDouble(as_int)

HashToUnit(value, offset) == DivideBy16Pow16(Sha256Prefix(value, offset))

\* unit value < 1.0
UnitBelowOne(u) == u[1] = 0

-----------------------------------------------------------------------------
(* Coordinates *)

lat_min == 4880
lat_max == 4890
lon_min == 225
lon_max == 242

\* a coordinate read from a source, in hundredths of a degree
Given(n) == [base |-> n, span |-> 0, unit |-> UnitZero]

\* lo + unit * (hi - lo)
Interpolate(lo, hi, u) == [base |-> lo, span |-> hi - lo, unit |-> u]

\* coordinates a counter-reading row may already carry
OwnLatitudes == {Null, Given(4885)}
OwnLongitudes == {Null, Given(235)}

\* rows of the snapshot: usable coordinates, or a row whose coordinates did not parse
BikeCoordinates ==
    { [latitude |-> Given(4886), longitude |-> Given(236)],
      [latitude |-> Given(4887), longitude |-> Given(237)],
      [latitude |-> Null, longitude |-> Given(236)] }

\* the coordinate the reference file holds for each id it lists
RefCoordinate(id) ==
    IF id = "A" THEN [latitude |-> Given(4888), longitude |-> Given(238)]
    ELSE [latitude |-> Given(4889), longitude |-> Given(239)]

ReadingRows ==
    [compteur_id : CompteurIds, latitude : OwnLatitudes, longitude : OwnLongitudes]

\* a relation's cells of an absent column are all null
ReadingRelations ==
    { [columns |-> cols, rows |-> rows] :
        cols \in SUBSET {"latitude", "longitude"},
        rows \in SeqsUpTo(ReadingRows, MaxReadings) }

WellFormed(df) ==
    \A i \in 1..Len(df.rows) :
        /\ ("latitude" \notin df.columns => IsNull(df.rows[i].latitude))
        /\ ("longitude" \notin df.columns => IsNull(df.rows[i].longitude))

BikeRows ==
    { [compteur_id |-> id, latitude |-> c.latitude, longitude |-> c.longitude] :
        id \in CompteurIds, c \in BikeCoordinates }

Empty(df) == Len(df.rows) = 0
-----------------------------------------------------------------------------
(* CoordinateResolver: metrics.py 18-214 *)

\* coord_df.dropna(subset=["latitude", "longitude"])
DropNa(rows) == SelectSeq(rows, LAMBDA r : ~IsNull(r.latitude) /\ ~IsNull(r.longitude))

\* coord_df.drop_duplicates("compteur_id"): the first row of each id is kept
DropDuplicates(rows) ==
    LET keep == {i \in 1..Len(rows) :
                    \A j \in 1..(i - 1) : rows[j].compteur_id # rows[i].compteur_id}
        F[i \in 0..Len(rows)] ==
            IF i = 0 THEN <<>>
            ELSE IF i \in keep THEN Append(F[i - 1], rows[i]) ELSE F[i - 1]
    IN  F[Len(rows)]

\* _extract_coordinates_from_bikes: the id -> (latitude, longitude) mapping of the
\* snapshot; None or an empty snapshot gives an empty mapping
ExtractCoordinatesFromBikes(bikes) ==
    IF bikes = <<>> THEN <<>> ELSE DropDuplicates(DropNa(bikes))

\* enriched.merge(source, on="compteur_id", how="left", suffixes=("", sfx)) followed
\* by the per-axis loop: a column the readings have is fillna'ed from the source's
\* column, a column they lack is the source's column itself
MergeAndFill(df, source) ==
    LET match(row) == FirstMatch(source, LAMBDA s : s.compteur_id = row.compteur_id)
        fill(row, coord) ==
            LET m == match(row)
                other == IF IsNull(m) THEN Null ELSE m[coord]
            IN  IF coord \in df.columns
                THEN (IF IsNull(row[coord]) THEN other ELSE row[coord])
                ELSE other
    IN  [columns |-> df.columns \cup {"latitude", "longitude"},
         rows |-> [i \in 1..Len(df.rows) |->
                    [compteur_id |-> df.rows[i].compteur_id,
                     latitude |-> fill(df.rows[i], "latitude"),
                     longitude |-> fill(df.rows[i], "longitude")]]]

\* one stage of the resolver: skipped when the source mapping is empty
FillStage(df, source) == IF source = <<>> THEN df ELSE MergeAndFill(df, source)

\* mask_missing = frame["latitude"].isna() | frame["longitude"].isna()
MaskMissing(row) == IsNull(row.latitude) \/ IsNull(row.longitude)

\* the synthetic coordinates of a counter id
FallbackLatitude(compteur_id) == Interpolate(lat_min, lat_max, HashToUnit(compteur_id, 0))
FallbackLongitude(compteur_id) == Interpolate(lon_min, lon_max, HashToUnit(compteur_id, 1))

\* _assign_fallback_coordinates with the salt taken from the row's position instead
\* of the axis alone
AssignFallbackCoordinates_SaltByRow(df) ==
    IF Empty(df) THEN df
    ELSE LET frame == [columns |-> df.columns \cup {"latitude", "longitude"},
                       rows |-> df.rows]
         IN  [frame EXCEPT !.rows =
                [i \in 1..Len(frame.rows) |->
                    IF MaskMissing(frame.rows[i])
                    THEN [frame.rows[i] EXCEPT
                            !.latitude = Interpolate(lat_min, lat_max,
                                HashToUnit(frame.rows[i].compteur_id, (i + 1) % 2)),
                            !.longitude = Interpolate(lon_min, lon_max,
                                HashToUnit(frame.rows[i].compteur_id, i % 2))]
                    ELSE frame.rows[i]]]

\* _assign_fallback_coordinates with mask_missing built with & instead of |
AssignFallbackCoordinates_MaskAnd(df) ==
    IF Empty(df) THEN df
    ELSE LET frame == [columns |-> df.columns \cup {"latitude", "longitude"},
                       rows |-> df.rows]
             mask(row) == IsNull(row.latitude) /\ IsNull(row.longitude)
         IN  [frame EXCEPT !.rows =
                [i \in 1..Len(frame.rows) |->
                    IF mask(frame.rows[i])
                    THEN [frame.rows[i] EXCEPT
                            !.latitude = FallbackLatitude(frame.rows[i].compteur_id),
                            !.longitude = FallbackLongitude(frame.rows[i].compteur_id)]
                    ELSE frame.rows[i]]]

\* _assign_fallback_coordinates
AssignFallbackCoordinates(df) ==
    IF Empty(df) THEN df
    ELSE LET frame == [columns |-> df.columns \cup {"latitude", "longitude"},
                       rows |-> df.rows]
         IN  IF \A i \in 1..Len(frame.rows) : ~MaskMissing(frame.rows[i])
             THEN frame
             ELSE [frame EXCEPT !.rows =
                     [i \in 1..Len(frame.rows) |->
                        IF MaskMissing(frame.rows[i])
                        THEN [frame.rows[i] EXCEPT
                                !.latitude = FallbackLatitude(frame.rows[i].compteur_id),
                                !.longitude = FallbackLongitude(frame.rows[i].compteur_id)]
                        ELSE frame.rows[i]]]

\* _enrich_comptage_with_coordinates with the two fill stages in the other order
EnrichComptageWithCoordinates_RefFirst(comptage, bikes, ref) ==
    IF Empty(comptage) THEN comptage
    ELSE AssignFallbackCoordinates(
            FillStage(FillStage(comptage, ref), ExtractCoordinatesFromBikes(bikes)))

\* _enrich_comptage_with_coordinates
EnrichComptageWithCoordinates(comptage, bikes, ref) ==
    IF Empty(comptage) THEN comptage
    ELSE AssignFallbackCoordinates(
            FillStage(FillStage(comptage, ExtractCoordinatesFromBikes(bikes)), ref))

\* the reference tables: the file is absent or unreadable, or lists some ids
RefTables ==
    LET row(id) == [compteur_id |-> id,
                    latitude |-> RefCoordinate(id).latitude,
                    longitude |-> RefCoordinate(id).longitude]
    IN  {<<>>, <<row("A")>>, <<row("B")>>, <<row("A"), row("B")>>}

CoordInit ==
    /\ df_comptage \in {df \in ReadingRelations : WellFormed(df)}
    /\ df_bikes \in SeqsUpTo(BikeRows, MaxBikes)
    /\ ref_df \in RefTables
    /\ enriched = Null
    /\ pc_coord = "input"

\* calculate_all_metrics line 885: the resolver is called once on the day's inputs
Enrich ==
    /\ pc_coord = "input"
    /\ enriched' = EnrichComptageWithCoordinates(df_comptage, df_bikes, ref_df)
    /\ pc_coord' = "done"
    /\ UNCHANGED <<df_comptage, df_bikes, ref_df, coordOthers>>

CoordNext == Enrich

CoordIdle ==
    /\ df_comptage = [columns |-> {}, rows |-> <<>>]
    /\ df_bikes = <<>>
    /\ ref_df = <<>>
    /\ enriched = Null
    /\ pc_coord = "idle"

-----------------------------------------------------------------------------
(* The fallback stage run after run: metrics.py 170-214 *)

NoneSeen == [id \in CompteurIds |-> Null]

\* the coordinates of the first row of id that the fallback stage filled in this call
FilledNow(frame, result, id) ==
    LET idx == {i \in 1..Len(frame.rows) :
                    frame.rows[i].compteur_id = id /\ MaskMissing(frame.rows[i])}
    IN  IF idx = {} THEN Null
        ELSE LET i == CHOOSE k \in idx : \A j \in idx : k <= j
             IN  [latitude |-> result.rows[i].latitude,
                  longitude |-> result.rows[i].longitude]

FallbackInit ==
    /\ fb_frame \in {df \in ReadingRelations : WellFormed(df)}
    /\ fb_result = Null
    /\ fb_seen = NoneSeen
    /\ pc_fb = "input"

\* enriched = _assign_fallback_coordinates(enriched), line 160
FallbackCall ==
    /\ pc_fb = "input"
    /\ LET result == AssignFallbackCoordinates(fb_frame)
       IN  /\ fb_result' = result
           /\ fb_seen' = [id \in CompteurIds |->
                            IF IsNull(fb_seen[id])
                            THEN FilledNow(fb_frame, result, id)
                            ELSE fb_seen[id]]
    /\ pc_fb' = "done"
    /\ UNCHANGED <<fb_frame, fbOthers>>

\* a later run, in a new process: nothing but the new relation is given to it
FallbackNewRun ==
    /\ pc_fb = "done"
    /\ fb_frame' \in {df \in ReadingRelations : WellFormed(df)}
    /\ fb_result' = Null
    /\ pc_fb' = "input"
    /\ UNCHANGED <<fb_seen, fbOthers>>

FallbackNext == FallbackCall \/ FallbackNewRun

FallbackIdle ==
    /\ fb_frame = [columns |-> {}, rows |-> <<>>]
    /\ fb_result = Null
    /\ fb_seen = NoneSeen
    /\ pc_fb = "idle"

-----------------------------------------------------------------------------
(* _hash_to_unit on any digest, and the interpolation: metrics.py 179-205 *)

\* sample values of int(digest[:16], 16): the digests of the model's ids, and
\* 64-bit values around the points where float() rounds
DigestSamples ==
    { Sha256Prefix(id, offset) : id \in {"A", "B", "C"}, offset \in {0, 1} }
    \cup { <<a, b, c, d>> : a \in {0, 31, Base - 1}, b \in {0, Base - 1},
                            c \in {0, Base - 1},
                            d \in {0, 1023, 1024, Base - 1025, Base - 1024, Base - 1} }

HashInit ==
    /\ h_as_int \in [lat : DigestSamples, lon : DigestSamples]
    /\ h_lat = Null
    /\ h_lon = Null
    /\ pc_hash = "start"

\* fallback_lats: lat_min + _hash_to_unit(compteur_id, 0) * (lat_max - lat_min)
ComputeFallbackLat ==
    /\ pc_hash = "start"
    /\ h_lat' = Interpolate(lat_min, lat_max, DivideBy16Pow16(h_as_int.lat))
    /\ pc_hash' = "lat"
    /\ UNCHANGED <<h_as_int, h_lon, hashOthers>>

\* fallback_lons: lon_min + _hash_to_unit(compteur_id, 1) * (lon_max - lon_min)
ComputeFallbackLon ==
    /\ pc_hash = "lat"
    /\ h_lon' = Interpolate(lon_min, lon_max, DivideBy16Pow16(h_as_int.lon))
    /\ pc_hash' = "done"
    /\ UNCHANGED <<h_as_int, h_lat, hashOthers>>

HashNext == ComputeFallbackLat \/ ComputeFallbackLon

HashIdle ==
    /\ h_as_int = [lat |-> <<0, 0, 0, 0>>, lon |-> <<0, 0, 0, 0>>]
    /\ h_lat = Null
    /\ h_lon = Null
    /\ pc_hash = "idle"

-----------------------------------------------------------------------------
(* MetricEngine, helpers: relations, dates, sums, rationals *)

\* pd.DataFrame()
EmptyFrame == [columns |-> {}, rows |-> <<>>]

\* groupby sorts its keys: the order of the counter ids
IdOrder == <<"A", "B", "C">>

SortedIds(S) == SelectSeq(IdOrder, LAMBDA id : id \in S)

\* a non-null cell holding a number
Cell(n) == [value |-> n]

RECURSIVE Sum(_)
Sum(seq) == IF seq = <<>> THEN 0 ELSE Head(seq) + Sum(Tail(seq))

RECURSIVE SortAscending(_)
\* the integers of S in increasing order
SortAscending(S) ==
    IF S = {} THEN <<>>
    ELSE LET m == CHOOSE x \in S : \A y \in S : x <= y
         IN  <<m>> \o SortAscending(S \ {m})

RECURSIVE Flatten(_)
Flatten(seqs) == IF seqs = <<>> THEN <<>> ELSE Head(seqs) \o Flatten(Tail(seqs))

\* a timestamp is [day, hour], day counted from 2025-01-01 (day 0, a Wednesday)
Stamp(d, h) == [day |-> d, hour |-> h]

\* pd.to_datetime(column, errors="coerce"): a timestamp stays, anything else is NaT
ToDatetime(v) == IF IsNull(v) THEN Null ELSE v

\* .dt.date: the day alone, as a date [day]
DtDate(ts) == IF IsNull(ts) THEN Null ELSE [day |-> ts.day]

\* .dt.dayofweek, Monday = 0
DayOfWeek(ts) == (ts.day + 2) % 7

\* rationals <<num, den>>, den > 0
RatLess(a, b) == a[1] * b[2] < b[1] * a[2]
RatEq(a, b) == a[1] * b[2] = b[1] * a[2]

\* the coordinates an enriched relation holds for a counter
CoordinateOf(id) ==
    CASE id = "A" -> [latitude |-> Given(4885), longitude |-> Given(235)]
      [] id = "B" -> [latitude |-> Given(4886), longitude |-> Given(236)]
      [] id = "C" -> [latitude |-> Given(4887), longitude |-> Given(237)]

\* the columns the metric functions read in a counter-reading relation
BaseColumns == {"compteur_id", "date_heure", "comptage_horaire"}

\* an exception leaving a function, in place of its result
Raised(kind) == [raised |-> kind]
IsRaised(result) == "raised" \in DOMAIN result

\* counter-reading relations over the given ids, timestamps and counts, with the
\* coordinate columns (as calculate_all_metrics passes them) or without
MetricRelations(ids, stamps, counts, colsets) ==
    { [columns |-> BaseColumns \cup cols, rows |-> rows] :
        cols \in colsets,
        rows \in SeqsUpTo([compteur_id : ids, date_heure : stamps,
                           comptage_horaire : counts], MaxMetricRows) }

WithCoordinates == {"latitude", "longitude"}

Counts(rows) == [i \in 1..Len(rows) |-> rows[i].comptage_horaire]

\* df[["compteur_id", "latitude", "longitude"]].drop_duplicates("compteur_id") merged
\* on the result, how="left": one match per row, no row added or removed
MergeCoordinates(df, columns, rows) ==
    IF WithCoordinates \subseteq df.columns
    THEN [columns |-> columns \cup WithCoordinates,
          rows |-> [i \in 1..Len(rows) |->
                      [c \in DOMAIN rows[i] \cup WithCoordinates |->
                          IF c \in DOMAIN rows[i] THEN rows[i][c]
                          ELSE CoordinateOf(rows[i].compteur_id)[c]]]]
    ELSE [columns |-> columns, rows |-> rows]

-----------------------------------------------------------------------------
(* calculate_dmja: metrics.py 288-321 *)

\* frame["date"] = pd.to_datetime(frame["date_heure"], errors="coerce").dt.date
\* frame = frame.dropna(subset=["date"])
DatedRows(rows) ==
    SelectSeq([i \in 1..Len(rows) |->
                 [compteur_id |-> rows[i].compteur_id,
                  date |-> DtDate(ToDatetime(rows[i].date_heure)),
                  comptage_horaire |-> rows[i].comptage_horaire]],
              LAMBDA r : ~IsNull(r.date))

\* frame.groupby(["compteur_id", "date"])["comptage_horaire"].sum().reset_index()
DailySums(rows) ==
    LET ids == SortedIds({rows[i].compteur_id : i \in 1..Len(rows)})
        perId(id) ==
            LET days == SortAscending({rows[i].date.day : i \in
                            {j \in 1..Len(rows) : rows[j].compteur_id = id}})
            IN  [d \in 1..Len(days) |->
                    [compteur_id |-> id,
                     date |-> [day |-> days[d]],
                     debit_journalier |->
                        Sum(Counts(SelectSeq(rows, LAMBDA r :
                            r.compteur_id = id /\ r.date.day = days[d])))]]
    IN  Flatten([k \in 1..Len(ids) |-> perId(ids[k])])

\* daily.groupby("compteur_id")["debit_journalier"].mean().reset_index()
MeanOfDaily(daily) ==
    LET ids == SortedIds({daily[i].compteur_id : i \in 1..Len(daily)})
    IN  [k \in 1..Len(ids) |->
            LET mine == SelectSeq(daily, LAMBDA r : r.compteur_id = ids[k])
            IN  [compteur_id |-> ids[k],
                 dmja |-> <<Sum([i \in 1..Len(mine) |-> mine[i].debit_journalier]),
                            Len(mine)>>]]

\* calculate_dmja with the mean taken over the hourly readings, not over the days
CalculateDmja_MeanOfReadings(df) ==
    IF Empty(df) THEN EmptyFrame
    ELSE LET rows == DatedRows(df.rows)
             ids == SortedIds({rows[i].compteur_id : i \in 1..Len(rows)})
         IN  MergeCoordinates(df, {"compteur_id", "dmja"},
                [k \in 1..Len(ids) |->
                    LET mine == SelectSeq(rows, LAMBDA r : r.compteur_id = ids[k])
                    IN  [compteur_id |-> ids[k],
                         dmja |-> <<Sum(Counts(mine)), Len(mine)>>]])

\* calculate_dmja
CalculateDmja(df) ==
    IF Empty(df) \/ "compteur_id" \notin df.columns \/ "comptage_horaire" \notin df.columns
    THEN EmptyFrame
    ELSE IF "date_heure" \notin df.columns THEN EmptyFrame
    ELSE MergeCoordinates(df, {"compteur_id", "dmja"},
                          MeanOfDaily(DailySums(DatedRows(df.rows))))

DmjaStamps == {Null, Stamp(2, 8), Stamp(2, 17), Stamp(3, 8)}

DmjaInit ==
    /\ m_df \in MetricRelations({"A", "B"}, DmjaStamps, {1, 2}, {{}, WithCoordinates})
    /\ m_param = Null
    /\ m_local = Null
    /\ m_result = Null
    /\ pc_metric = "input"

\* metrics_dict["dmja"] = calculate_dmja(df_comptage_velo)
CallDmja ==
    /\ pc_metric = "input"
    /\ m_result' = CalculateDmja(m_df)
    /\ pc_metric' = "done"
    /\ UNCHANGED <<m_df, m_param, m_local, metricOthers>>

DmjaNext == CallDmja

-----------------------------------------------------------------------------
(* identify_corridors_cyclables: metrics.py 542-556 *)

RECURSIVE SortRats(_)
\* a sequence of rationals in increasing order
SortRats(seq) ==
    IF seq = <<>> THEN <<>>
    ELSE LET i == CHOOSE k \in 1..Len(seq) :
                    \A j \in 1..Len(seq) : ~RatLess(seq[j], seq[k])
         IN  <<seq[i]>> \o SortRats([j \in 1..(Len(seq) - 1) |->
                                        IF j < i THEN seq[j] ELSE seq[j + 1]])

\* Series.quantile(percentile / 100), linear interpolation between the two nearest
\* order statistics: position (n - 1) * percentile / 100 in the sorted values
Quantile(values, percentile) ==
    LET sorted == SortRats(values)
        n == Len(sorted)
        pos == (n - 1) * percentile
        lo == pos \div 100
        frac == pos % 100
        x_lo == sorted[lo + 1]
        x_hi == sorted[IF lo + 2 <= n THEN lo + 2 ELSE n]
    IN  <<100 * x_lo[1] * x_hi[2] + frac * (x_hi[1] * x_lo[2] - x_lo[1] * x_hi[2]),
          100 * x_lo[2] * x_hi[2]>>

RECURSIVE SortByDmjaDescending(_)
\* sort_values("dmja", ascending=False); rows of equal dmja keep their order
SortByDmjaDescending(rows) ==
    IF rows = <<>> THEN <<>>
    ELSE LET best == {k \in 1..Len(rows) :
                        \A j \in 1..Len(rows) : ~RatLess(rows[k].dmja, rows[j].dmja)}
             i == CHOOSE k \in best : \A j \in best : k <= j
         IN  <<rows[i]>> \o SortByDmjaDescending([j \in 1..(Len(rows) - 1) |->
                                        IF j < i THEN rows[j] ELSE rows[j + 1]])

\* seuil = dmja["dmja"].quantile(percentile / 100)
Seuil(dmja, percentile) ==
    Quantile([i \in 1..Len(dmja.rows) |-> dmja.rows[i].dmja], percentile)

\* the kept rows with their percentile and seuil_dmja columns, sorted
CorridorsFrame(dmja, kept, percentile) ==
    [columns |-> dmja.columns \cup {"percentile", "seuil_dmja"},
     rows |-> SortByDmjaDescending(
                [i \in 1..Len(kept) |->
                    [c \in DOMAIN kept[i] \cup {"percentile", "seuil_dmja"} |->
                        IF c = "percentile" THEN <<percentile, 1>>
                        ELSE IF c = "seuil_dmja" THEN Seuil(dmja, percentile)
                        ELSE kept[i][c]]])]

\* identify_corridors_cyclables keeping dmja >= seuil
IdentifyCorridorsCyclables_AtLeast(df, percentile) ==
    LET dmja == CalculateDmja(df)
        corridors == SelectSeq(dmja.rows,
                        LAMBDA r : ~RatLess(r.dmja, Seuil(dmja, percentile)))
    IN  IF Empty(dmja) THEN EmptyFrame
        ELSE CorridorsFrame(dmja, corridors, percentile)

\* identify_corridors_cyclables
IdentifyCorridorsCyclables(df, percentile) ==
    LET dmja == CalculateDmja(df)
        corridors == SelectSeq(dmja.rows,
                        LAMBDA r : RatLess(Seuil(dmja, percentile), r.dmja))
    IN  IF Empty(dmja) THEN EmptyFrame
        ELSE CorridorsFrame(dmja, corridors, percentile)

CorridorsInit ==
    /\ m_df \in MetricRelations({"A", "B", "C"}, {Stamp(2, 8)}, {1, 2, 3}, {{}})
    /\ m_param \in [percentile : {25, 75}]
    /\ m_local = Null
    /\ m_result = Null
    /\ pc_metric = "input"

\* metrics_dict["corridors_cyclables"] = identify_corridors_cyclables(df, percentile)
CallCorridors ==
    /\ pc_metric = "input"
    /\ m_result' = IdentifyCorridorsCyclables(m_df, m_param.percentile)
    /\ pc_metric' = "done"
    /\ UNCHANGED <<m_df, m_param, m_local, metricOthers>>

CorridorsNext == CallCorridors

-----------------------------------------------------------------------------
(* calculate_ratio_weekend_semaine: metrics.py 601-625 *)

\* the integer nearest to num / den (den > 0), a tie going to the even one
RoundHalfEven(num, den) ==
    LET q == num \div den
        r == num % den
    IN  IF 2 * r < den THEN q
        ELSE IF 2 * r > den THEN q + 1
        ELSE IF q % 2 = 0 THEN q ELSE q + 1

RECURSIVE Pow10(_)
Pow10(n) == IF n = 0 THEN 1 ELSE 10 * Pow10(n - 1)

\* round(x, ndigits) of a rational x: a decimal with ndigits digits
Round(x, ndigits) == <<RoundHalfEven(x[1] * Pow10(ndigits), x[2]), Pow10(ndigits)>>

\* frame["datetime"] = pd.to_datetime(frame["date_heure"], errors="coerce")
\* frame = frame.dropna(subset=["datetime"])
\* frame["est_weekend"] = frame["datetime"].dt.dayofweek.isin([5, 6])
WeekFrame(rows) ==
    LET stamped == [i \in 1..Len(rows) |->
                      [c \in DOMAIN rows[i] \cup {"datetime"} |->
                          IF c = "datetime" THEN ToDatetime(rows[i].date_heure)
                          ELSE rows[i][c]]]
        kept == SelectSeq(stamped, LAMBDA r : ~IsNull(r.datetime))
    IN  [i \in 1..Len(kept) |->
            [c \in DOMAIN kept[i] \cup {"est_weekend"} |->
                IF c = "est_weekend" THEN DayOfWeek(kept[i].datetime) \in {5, 6}
                ELSE kept[i][c]]]

\* the single row of the result, ratio being the quotient line 617 computed
RatioRow(debit_weekend, debit_semaine, ratio) ==
    [columns |-> {"debit_weekend", "debit_semaine", "ratio_weekend_semaine",
                  "difference_pct"},
     rows |-> << [debit_weekend |-> debit_weekend,
                  debit_semaine |-> debit_semaine,
                  ratio_weekend_semaine |-> Round(ratio, 3),
                  difference_pct |-> Round(<<(ratio[1] - ratio[2]) * 100, ratio[2]>>, 2)] >>]

\* calculate_ratio_weekend_semaine dividing whenever the weekday total is not 0
CalculateRatioWeekendSemaine_DivideUnlessZero(df) ==
    LET frame == WeekFrame(df.rows)
        debit_weekend == Sum(Counts(SelectSeq(frame, LAMBDA r : r.est_weekend)))
        debit_semaine == Sum(Counts(SelectSeq(frame, LAMBDA r : ~r.est_weekend)))
        ratio == IF debit_semaine > 0 THEN <<debit_weekend, debit_semaine>>
                 ELSE IF debit_semaine < 0 THEN <<-debit_weekend, -debit_semaine>>
                 ELSE <<0, 1>>
    IN  IF Empty(df) THEN EmptyFrame
        ELSE RatioRow(debit_weekend, debit_semaine, ratio)

\* calculate_ratio_weekend_semaine
CalculateRatioWeekendSemaine(df) ==
    LET frame == WeekFrame(df.rows)
        debit_weekend == Sum(Counts(SelectSeq(frame, LAMBDA r : r.est_weekend)))
        debit_semaine == Sum(Counts(SelectSeq(frame, LAMBDA r : ~r.est_weekend)))
        ratio == IF debit_semaine > 0 THEN <<debit_weekend, debit_semaine>>
                 ELSE <<0, 1>>
    IN  IF Empty(df) \/ "date_heure" \notin df.columns \/ "comptage_horaire" \notin df.columns
        THEN EmptyFrame
        ELSE RatioRow(debit_weekend, debit_semaine, ratio)

\* readings of one counter on a Friday, a Saturday, a Sunday or at no valid time;
\* a negative count is a reading the quality report only warns about
RatioInit ==
    /\ m_df \in MetricRelations({"A"}, {Null, Stamp(2, 8), Stamp(3, 8), Stamp(4, 8)},
                                {-1, 0, 1, 2}, {{}})
    /\ m_param = Null
    /\ m_local = Null
    /\ m_result = Null
    /\ pc_metric = "input"

\* metrics_dict["ratio_weekend_semaine"] = calculate_ratio_weekend_semaine(df)
CallRatio ==
    /\ pc_metric = "input"
    /\ m_result' = CalculateRatioWeekendSemaine(m_df)
    /\ pc_metric' = "done"
    /\ UNCHANGED <<m_df, m_param, m_local, metricOthers>>

RatioNext == CallRatio

-----------------------------------------------------------------------------
(* detect_anomalies_zscore: metrics.py 670-707 *)

\* NaN, the value of an undefined mean, deviation or quotient
NaN == Null

\* groupby("compteur_id")["comptage_horaire"].agg(["mean", "std"]) for one counter:
\* the mean as a rational, the sample standard deviation (ddof = 1) as the square
\* root of the rational sq, NaN for a single reading
Stats(values) ==
    LET n == Len(values)
        total == Sum(values)
        squares == Sum([i \in 1..n |-> (n * values[i] - total) * (n * values[i] - total)])
    IN  [mean |-> <<total, n>>,
         std |-> IF n < 2 THEN NaN ELSE [sq |-> <<squares, n * n * (n - 1)>>]]

\* (comptage_horaire - mean) / std: a signed square root of the rational sq, NaN
\* when std is NaN or when 0 is divided by 0
Zscore(value, mean, std) ==
    LET dev == <<value * mean[2] - mean[1], mean[2]>>
    IN  IF IsNull(std) \/ (std.sq[1] = 0 /\ dev[1] = 0) THEN NaN
        ELSE [sign |-> IF dev[1] > 0 THEN 1 ELSE IF dev[1] < 0 THEN -1 ELSE 0,
              sq |-> <<dev[1] * dev[1] * std.sq[2], dev[2] * dev[2] * std.sq[1]>>]

\* frame["zscore"] with its undefined values filled with +inf
FillZero_Inf(z) == IF IsNull(z) THEN [sign |-> 1, sq |-> <<1, 0>>] ELSE z

\* frame["zscore"].fillna(0)
FillZero(z) == IF IsNull(z) THEN [sign |-> 0, sq |-> <<0, 1>>] ELSE z

\* the frame merged with its per-counter statistics, with its zscore column
ZscoreFrame(rows) ==
    [i \in 1..Len(rows) |->
        LET stats == Stats(Counts(SelectSeq(rows,
                        LAMBDA r : r.compteur_id = rows[i].compteur_id)))
        IN  [c \in DOMAIN rows[i] \cup {"mean", "std", "zscore"} |->
                IF c = "mean" THEN stats.mean
                ELSE IF c = "std" THEN stats.std
                ELSE IF c = "zscore"
                     THEN FillZero(Zscore(rows[i].comptage_horaire, stats.mean, stats.std))
                ELSE rows[i][c]]]

\* zscore.abs() > seuil_zscore, the threshold a rational
AbsAbove(z, seuil_zscore) ==
    \/ seuil_zscore[1] < 0
    \/ RatLess(<<seuil_zscore[1] * seuil_zscore[1], seuil_zscore[2] * seuil_zscore[2]>>,
               z.sq)

\* zscore.abs() >= seuil_zscore
AbsAtLeast(z, seuil_zscore) ==
    \/ seuil_zscore[1] <= 0
    \/ ~RatLess(z.sq,
                <<seuil_zscore[1] * seuil_zscore[1], seuil_zscore[2] * seuil_zscore[2]>>)

\* anomalies with its type_anomalie column
Labelled(rows) ==
    [i \in 1..Len(rows) |->
        [c \in DOMAIN rows[i] \cup {"type_anomalie"} |->
            IF c = "type_anomalie"
            THEN IF rows[i].zscore.sign > 0 THEN "pic_exceptionnel"
                 ELSE "creux_exceptionnel"
            ELSE rows[i][c]]]

\* the flagged readings keeping zscore.abs() >= seuil_zscore
Anomalies_AtLeast(df, seuil_zscore) ==
    Labelled(SelectSeq(ZscoreFrame(df.rows), LAMBDA r : AbsAtLeast(r.zscore, seuil_zscore)))

\* anomalies = frame[frame["zscore"].abs() > seuil_zscore] with their label
Anomalies(df, seuil_zscore) ==
    Labelled(SelectSeq(ZscoreFrame(df.rows), LAMBDA r : AbsAbove(r.zscore, seuil_zscore)))

RECURSIVE NLargest(_, _)
\* result.nlargest(n, "zscore_abs"): the n rows of largest |zscore| in descending
\* order, rows of equal |zscore| in their order of appearance
NLargest(rows, n) ==
    IF n = 0 \/ rows = <<>> THEN <<>>
    ELSE LET best == {k \in 1..Len(rows) :
                        \A j \in 1..Len(rows) : ~RatLess(rows[k].zscore.sq, rows[j].zscore.sq)}
             i == CHOOSE k \in best : \A j \in best : k <= j
         IN  <<rows[i]>> \o NLargest([j \in 1..(Len(rows) - 1) |->
                                        IF j < i THEN rows[j] ELSE rows[j + 1]], n - 1)

AnomalyColumns ==
    {"compteur_id", "date_heure", "comptage_horaire", "mean", "std", "zscore",
     "type_anomalie"}

\* detect_anomalies_zscore
DetectAnomaliesZscore(df, seuil_zscore, max_results) ==
    LET anomalies == Anomalies(df, seuil_zscore)
    IN  IF Empty(df) \/ "compteur_id" \notin df.columns \/ "comptage_horaire" \notin df.columns
        THEN EmptyFrame
        \* result = anomalies[["compteur_id", "date_heure", ...]]
        ELSE IF "date_heure" \notin df.columns THEN Raised("KeyError")
        ELSE [columns |-> AnomalyColumns,
              rows |-> IF Len(anomalies) > max_results
                       THEN NLargest(anomalies, max_results)
                       ELSE anomalies]

\* one counter with k readings of 1 followed by one reading of the given value
SpikeRelations(value) ==
    { [columns |-> BaseColumns,
       rows |-> [i \in 1..(k + 1) |->
                    [compteur_id |-> "A", date_heure |-> Stamp(2, 8),
                     comptage_horaire |-> IF i <= k THEN 1 ELSE value]]] :
        k \in 1..MaxQuiet }

\* short relations over two counters, and long ones with a single peak or trough
ZscoreInit ==
    /\ m_df \in MetricRelations({"A", "B"}, {Stamp(2, 8)}, {0, 1, 2}, {{}})
                  \cup SpikeRelations(2) \cup SpikeRelations(0)
    /\ m_param \in [seuil_zscore : {<<1, 1>>, <<3, 1>>}, max_results : {1, 200}]
    /\ m_local = Null
    /\ m_result = Null
    /\ pc_metric = "input"

\* metrics_dict["anomalies"] = detect_anomalies_zscore(df, seuil_zscore, max_results);
\* m_local keeps the flagged readings of line 695 as they were before the cap
CallZscore ==
    /\ pc_metric = "input"
    /\ m_local' = IF Empty(m_df) THEN <<>> ELSE Anomalies(m_df, m_param.seuil_zscore)
    /\ m_result' = DetectAnomaliesZscore(m_df, m_param.seuil_zscore, m_param.max_results)
    /\ pc_metric' = "done"
    /\ UNCHANGED <<m_df, m_param, metricOthers>>

ZscoreNext == CallZscore

-----------------------------------------------------------------------------
(* detect_congestion_cyclable: metrics.py 632-667 *)

\* x as a rational of positive denominator (of denominator 0: +inf or -inf)
Positive(x) == IF x[2] < 0 THEN <<-x[1], -x[2]>> ELSE x

\* Series.round(ndigits) of a float: inf stays inf
RoundFloat(x, ndigits) ==
    IF x[2] = 0 THEN x ELSE Round(Positive(x), ndigits)

\* the frame merged with moyennes, with its seuil column
CongestionFrame(rows, seuil_pct) ==
    [i \in 1..Len(rows) |->
        LET mine == Counts(SelectSeq(rows,
                        LAMBDA r : r.compteur_id = rows[i].compteur_id))
        IN  [c \in DOMAIN rows[i] \cup {"debit_moyen", "seuil"} |->
                IF c = "debit_moyen" THEN <<Sum(mine), Len(mine)>>
                ELSE IF c = "seuil" THEN <<Sum(mine) * seuil_pct, Len(mine) * 100>>
                ELSE rows[i][c]]]

CongestionColumns ==
    {"compteur_id", "date_heure", "comptage_horaire", "debit_moyen", "seuil_pct",
     "depassement_pct"}

\* the selected columns of congestions with seuil_pct and depassement_pct =
\* ((comptage_horaire / debit_moyen) - 1) * 100 rounded to 2 decimals
WithDepassement(rows, seuil_pct) ==
    [i \in 1..Len(rows) |->
        [c \in CongestionColumns |->
            IF c = "seuil_pct" THEN <<seuil_pct, 1>>
            ELSE IF c = "depassement_pct"
                 THEN RoundFloat(<<(rows[i].comptage_horaire * rows[i].debit_moyen[2]
                                        - rows[i].debit_moyen[1]) * 100,
                                   rows[i].debit_moyen[1]>>, 2)
            ELSE rows[i][c]]]

\* the flagged readings keeping comptage_horaire >= seuil
Congestions_AtLeast(df, seuil_pct) ==
    WithDepassement(SelectSeq(CongestionFrame(df.rows, seuil_pct),
                        LAMBDA r : ~RatLess(<<r.comptage_horaire, 1>>, r.seuil)),
                    seuil_pct)

\* congestions = frame[frame["comptage_horaire"] > frame["seuil"]] and its columns
Congestions(df, seuil_pct) ==
    WithDepassement(SelectSeq(CongestionFrame(df.rows, seuil_pct),
                        LAMBDA r : RatLess(r.seuil, <<r.comptage_horaire, 1>>)),
                    seuil_pct)

RECURSIVE NLargestBy(_, _, _)
\* rows.nlargest(n, column): the n rows of largest value in descending order, rows
\* of equal value in their order of appearance
NLargestBy(rows, n, column) ==
    IF n = 0 \/ rows = <<>> THEN <<>>
    ELSE LET best == {k \in 1..Len(rows) :
                        \A j \in 1..Len(rows) : ~RatLess(rows[k][column], rows[j][column])}
             i == CHOOSE k \in best : \A j \in best : k <= j
         IN  <<rows[i]>> \o NLargestBy([j \in 1..(Len(rows) - 1) |->
                                IF j < i THEN rows[j] ELSE rows[j + 1]], n - 1, column)

\* detect_congestion_cyclable with the cap keeping the first rows met
DetectCongestionCyclable_FirstRows(df, seuil_pct, max_results) ==
    IF Empty(df) \/ "compteur_id" \notin df.columns \/ "comptage_horaire" \notin df.columns
    THEN EmptyFrame
    ELSE IF "date_heure" \notin df.columns THEN Raised("KeyError")
    ELSE [columns |-> CongestionColumns,
          rows |-> SubSeq(Congestions(df, seuil_pct), 1,
                          IF Len(Congestions(df, seuil_pct)) > max_results
                          THEN max_results ELSE Len(Congestions(df, seuil_pct)))]

\* detect_congestion_cyclable
DetectCongestionCyclable(df, seuil_pct, max_results) ==
    LET congestions == Congestions(df, seuil_pct)
    IN  IF Empty(df) \/ "compteur_id" \notin df.columns \/ "comptage_horaire" \notin df.columns
        THEN EmptyFrame
        \* result = congestions[["compteur_id", "date_heure", ...]]
        ELSE IF "date_heure" \notin df.columns THEN Raised("KeyError")
        ELSE [columns |-> CongestionColumns,
              rows |-> IF Len(congestions) > max_results
                       THEN NLargestBy(congestions, max_results, "depassement_pct")
                       ELSE congestions]

\* one counter with k readings of 0 followed by one reading of 500
CalmThenPeak ==
    { [columns |-> BaseColumns,
       rows |-> [i \in 1..(k + 1) |->
                    [compteur_id |-> "A", date_heure |-> Stamp(0, 8),
                     comptage_horaire |-> IF i <= k THEN 0 ELSE 500]]] :
        k \in 1..MaxCalm }

CongestionInit ==
    /\ m_df \in MetricRelations({"A", "B"}, {Stamp(0, 8)}, {-1, 0, 2, 3}, {{}})
                  \cup CalmThenPeak
    /\ m_param \in [seuil_pct : {100, 150}, max_results : {1, 500}]
    /\ m_local = Null
    /\ m_result = Null
    /\ pc_metric = "input"

\* metrics["congestion_cyclable"] = detect_congestion_cyclable(df, seuil_pct,
\* max_results); m_local keeps the flagged readings as they were before the cap
CallCongestion ==
    /\ pc_metric = "input"
    /\ m_local' = IF Empty(m_df) THEN <<>> ELSE Congestions(m_df, m_param.seuil_pct)
    /\ m_result' = DetectCongestionCyclable(m_df, m_param.seuil_pct, m_param.max_results)
    /\ pc_metric' = "done"
    /\ UNCHANGED <<m_df, m_param, metricOthers>>

CongestionNext == CallCongestion

-----------------------------------------------------------------------------
(* calculate_chantiers_actifs: metrics.py 714-753 *)

\* a <= b on timestamps; a comparison with NaT is false
StampLeq(a, b) ==
    /\ ~IsNull(a)
    /\ ~IsNull(b)
    /\ (a.day < b.day \/ (a.day = b.day /\ a.hour <= b.hour))

\* groupby sorts its keys: the order of the zones
ZoneOrder == <<"11e", "12e">>

\* the row of a relation restricted to the columns the relation has
Project(row, columns) == [c \in columns |-> row[c]]

\* the values pd.Timestamp.now() may return
WallClock == {Stamp(4, 9), Stamp(12, 9)}

\* pd.DataFrame({"nb_chantiers_actifs": [0]})
NoChantierActif ==
    [columns |-> {"nb_chantiers_actifs"}, rows |-> << [nb_chantiers_actifs |-> 0] >>]

\* actifs.groupby("arrondissement").size().reset_index(name="nb_chantiers_actifs")
SizeByZone(actifs) ==
    LET zones == SelectSeq(ZoneOrder,
                    LAMBDA z : \E i \in 1..Len(actifs) : actifs[i].arrondissement = z)
    IN  [columns |-> {"arrondissement", "nb_chantiers_actifs"},
         rows |-> [k \in 1..Len(zones) |->
                    [arrondissement |-> zones[k],
                     nb_chantiers_actifs |->
                        Len(SelectSeq(actifs, LAMBDA r : r.arrondissement = zones[k]))]]]

\* the records kept by lines 725-739, date_ref being the reference instant
Actifs(df, date_ref) ==
    IF {"date_debut", "date_fin"} \subseteq df.columns
    THEN SelectSeq(df.rows, LAMBDA r : /\ StampLeq(ToDatetime(r.date_debut), date_ref)
                                       /\ StampLeq(date_ref, ToDatetime(r.date_fin)))
    ELSE df.rows

\* the result of calculate_chantiers_actifs for the reference instant date_ref
ChantiersActifsAt(df, date_ref) ==
    IF Empty(df) \/ Actifs(df, date_ref) = <<>> THEN NoChantierActif
    ELSE IF "arrondissement" \in df.columns THEN SizeByZone(Actifs(df, date_ref))
    ELSE [columns |-> {"nb_chantiers_actifs"},
          rows |-> << [nb_chantiers_actifs |-> Len(Actifs(df, date_ref))] >>]

\* calculate_chantiers_actifs reading the clock whatever date_reference is
CalculateChantiersActifs_AlwaysNow(df, date_reference, now) ==
    ChantiersActifsAt(df, now)

\* calculate_chantiers_actifs; now is the value pd.Timestamp.now() returns if called
CalculateChantiersActifs(df, date_reference, now) ==
    ChantiersActifsAt(df, IF IsNull(date_reference) THEN now
                          ELSE ToDatetime(date_reference))

\* public-works relations: with or without the zone column and the date columns; a
\* date is a day at 00:00 or did not parse
ChantierRelations ==
    { [columns |-> cols, rows |-> [i \in 1..Len(rows) |-> Project(rows[i], cols)]] :
        cols \in {{"arrondissement", "date_debut", "date_fin"},
                  {"date_debut", "date_fin"},
                  {"arrondissement", "date_debut"},
                  {"arrondissement"}},
        rows \in SeqsUpTo([arrondissement : {"11e", "12e"},
                           date_debut : {Null, Stamp(0, 0), Stamp(6, 0)},
                           date_fin : {Null, Stamp(3, 0), Stamp(9, 0)}], MaxChantiers) }

\* date_reference is None, a day, or a day and an hour
ChantiersInit ==
    /\ m_df \in ChantierRelations
    /\ m_param \in [date_reference : {Null, Stamp(4, 0), Stamp(9, 12)}]
    /\ m_local = Null
    /\ m_result = Null
    /\ pc_metric = "input"

\* calculate_chantiers_actifs(df, date_reference); m_local keeps the clock value
CallChantiersActifs ==
    /\ pc_metric = "input"
    /\ \E now \in WallClock :
          /\ m_local' = now
          /\ m_result' = CalculateChantiersActifs(m_df, m_param.date_reference, now)
    /\ pc_metric' = "done"
    /\ UNCHANGED <<m_df, m_param, metricOthers>>

ChantiersNext == CallChantiersActifs

-----------------------------------------------------------------------------
(* The other counter-reading metric functions: metrics.py 221-285, 328-508, 564-597 *)

RatAdd(a, b) == <<a[1] * b[2] + b[1] * a[2], a[2] * b[2]>>

RECURSIVE RatSum(_)
RatSum(seq) == IF seq = <<>> THEN <<0, 1>> ELSE RatAdd(Head(seq), RatSum(Tail(seq)))

\* Series.mean of rationals; NaN (<<0, 0>>) for no value
RatMean(seq) == <<RatSum(seq)[1], RatSum(seq)[2] * Len(seq)>>

\* Series.median of rationals
Median(values) ==
    LET sorted == SortRats(values)
        n == Len(sorted)
        mid == RatAdd(sorted[n \div 2], sorted[n \div 2 + 1])
    IN  IF n % 2 = 1 THEN sorted[(n + 1) \div 2] ELSE <<mid[1], 2 * mid[2]>>

AsRats(values) == [i \in 1..Len(values) |-> <<values[i], 1>>]

\* the rows whose date_heure parsed: to_datetime(errors="coerce") then dropna
Timed(rows) == SelectSeq(rows, LAMBDA r : ~IsNull(ToDatetime(r.date_heure)))

\* calculate_debit_horaire
CalculateDebitHoraire(df) ==
    IF Empty(df) \/ "compteur_id" \notin df.columns \/ "comptage_horaire" \notin df.columns
    THEN EmptyFrame
    ELSE LET ids == SortedIds({df.rows[i].compteur_id : i \in 1..Len(df.rows)})
         IN  [columns |-> {"compteur_id", "debit_horaire_moyen", "debit_horaire_median",
                           "debit_horaire_min", "debit_horaire_max", "debit_total",
                           "nb_mesures"},
              rows |-> [k \in 1..Len(ids) |->
                LET mine == Counts(SelectSeq(df.rows, LAMBDA r : r.compteur_id = ids[k]))
                    sorted == SortAscending({mine[i] : i \in 1..Len(mine)})
                IN  [compteur_id |-> ids[k],
                     debit_horaire_moyen |-> <<Sum(mine), Len(mine)>>,
                     debit_horaire_median |-> Median(AsRats(mine)),
                     debit_horaire_min |-> sorted[1],
                     debit_horaire_max |-> sorted[Len(sorted)],
                     debit_total |-> Sum(mine),
                     nb_mesures |-> Len(mine)]]]

\* groupby("compteur_id")["comptage_horaire"].sum().nlargest(top_n_compteurs).index
TopCompteurs(rows, top_n_compteurs) ==
    LET ids == SortedIds({rows[i].compteur_id : i \in 1..Len(rows)})
        totals == [k \in 1..Len(ids) |->
                    [compteur_id |-> ids[k],
                     total |-> <<Sum(Counts(SelectSeq(rows,
                                    LAMBDA r : r.compteur_id = ids[k]))), 1>>]]
        top == NLargestBy(totals, top_n_compteurs, "total")
    IN  {top[k].compteur_id : k \in 1..Len(top)}

\* the rows of the top counters with a date within last_n_days of the latest one
LastDays(rows, last_n_days) ==
    LET dated == DatedRows(rows)
        max_date == CHOOSE d \in {dated[i].date.day : i \in 1..Len(dated)} :
                        \A i \in 1..Len(dated) : dated[i].date.day <= d
    IN  IF dated = <<>> THEN <<>>
        ELSE SelectSeq(dated, LAMBDA r : r.date.day >= max_date - last_n_days)

\* calculate_debit_journalier
CalculateDebitJournalier(df, top_n_compteurs, last_n_days) ==
    IF Empty(df) \/ "compteur_id" \notin df.columns \/ "date_heure" \notin df.columns
    THEN EmptyFrame
    \* frame.groupby("compteur_id")["comptage_horaire"]
    ELSE IF "comptage_horaire" \notin df.columns THEN Raised("KeyError")
    ELSE LET top_compteurs == TopCompteurs(df.rows, top_n_compteurs)
             frame == SelectSeq(df.rows, LAMBDA r : r.compteur_id \in top_compteurs)
         IN  MergeCoordinates(df, {"compteur_id", "date", "debit_journalier"},
                              DailySums(LastDays(frame, last_n_days)))

DayNames ==
    <<"Monday", "Tuesday", "Wednesday", "Thursday", "Friday", "Saturday", "Sunday">>

\* .dt.day_name()
DayName(ts) == DayNames[DayOfWeek(ts) + 1]

\* groupby sorts its keys: the day names in alphabetical order
DayNameOrder ==
    <<"Friday", "Monday", "Saturday", "Sunday", "Thursday", "Tuesday", "Wednesday">>

\* calculate_profil_jour_type
CalculateProfilJourType(df) ==
    IF Empty(df) \/ "date_heure" \notin df.columns \/ "comptage_horaire" \notin df.columns
    THEN EmptyFrame
    ELSE LET frame == Timed(df.rows)
             jours == SelectSeq(DayNameOrder, LAMBDA name :
                        \E i \in 1..Len(frame) : DayName(frame[i].date_heure) = name)
             perJour(name) ==
                LET mine == SelectSeq(frame, LAMBDA r : DayName(r.date_heure) = name)
                    heures == SortAscending({mine[i].date_heure.hour : i \in 1..Len(mine)})
                IN  [h \in 1..Len(heures) |->
                        LET group == Counts(SelectSeq(mine,
                                        LAMBDA r : r.date_heure.hour = heures[h]))
                        IN  [jour |-> name, heure |-> heures[h],
                             debit_moyen |-> <<Sum(group), Len(group)>>]]
         IN  [columns |-> {"jour", "heure", "debit_moyen"},
              rows |-> Flatten([k \in 1..Len(jours) |-> perJour(jours[k])])]

\* calculate_heures_pointe
CalculateHeuresPointe(df, seuil_pct) ==
    IF Empty(df) \/ "date_heure" \notin df.columns \/ "comptage_horaire" \notin df.columns
    THEN EmptyFrame
    ELSE LET frame == Timed(df.rows)
             heures == SortAscending({frame[i].date_heure.hour : i \in 1..Len(frame)})
             debit_horaire ==
                [h \in 1..Len(heures) |->
                    LET group == Counts(SelectSeq(frame,
                                    LAMBDA r : r.date_heure.hour = heures[h]))
                    IN  [heure |-> heures[h], debit_moyen |-> <<Sum(group), Len(group)>>]]
             debit_global_moyen ==
                RatMean([h \in 1..Len(debit_horaire) |-> debit_horaire[h].debit_moyen])
             seuil == <<debit_global_moyen[1] * seuil_pct, debit_global_moyen[2] * 100>>
             heures_pointe == SelectSeq(debit_horaire, LAMBDA r : RatLess(seuil, r.debit_moyen))
         IN  [columns |-> {"heure", "debit_moyen", "seuil_pct", "debit_global_moyen"},
              rows |-> [i \in 1..Len(heures_pointe) |->
                          [heure |-> heures_pointe[i].heure,
                           debit_moyen |-> heures_pointe[i].debit_moyen,
                           seuil_pct |-> <<seuil_pct, 1>>,
                           debit_global_moyen |-> debit_global_moyen]]]

\* calculate_taux_disponibilite
CalculateTauxDisponibilite(df, periode_jours) ==
    IF Empty(df) \/ "compteur_id" \notin df.columns \/ "date_heure" \notin df.columns
    THEN EmptyFrame
    ELSE LET frame == Timed(df.rows)
             ids == SortedIds({frame[i].compteur_id : i \in 1..Len(frame)})
             enregistrements_attendus == 24 * periode_jours
         IN  [columns |-> {"compteur_id", "nb_enregistrements_reels",
                           "nb_enregistrements_attendus", "taux_disponibilite_pct"},
              rows |-> [k \in 1..Len(ids) |->
                LET reels == Len(SelectSeq(frame, LAMBDA r : r.compteur_id = ids[k]))
                IN  [compteur_id |-> ids[k],
                     nb_enregistrements_reels |-> reels,
                     nb_enregistrements_attendus |-> enregistrements_attendus,
                     taux_disponibilite_pct |->
                        Round(<<reels * 100, enregistrements_attendus>>, 2)]]]

\* the ranking with the smallest dmja first
Ranked_SmallestFirst(rows, top_n) ==
    LET negated == [i \in 1..Len(rows) |->
                      [rows[i] EXCEPT !.dmja = <<-rows[i].dmja[1], rows[i].dmja[2]>>]]
        top == NLargestBy(negated, top_n, "dmja")
    IN  [i \in 1..Len(top) |->
            [rang |-> i, compteur_id |-> top[i].compteur_id,
             dmja |-> <<-top[i].dmja[1], top[i].dmja[2]>>]]

\* dmja.nlargest(top_n, "dmja").reset_index(drop=True) with its rang column
Ranked(rows, top_n) ==
    LET top == NLargestBy(rows, top_n, "dmja")
    IN  [i \in 1..Len(top) |->
            [rang |-> i, compteur_id |-> top[i].compteur_id, dmja |-> top[i].dmja]]

\* calculate_top_compteurs; ref is the reference table _load_reference_coordinates
\* returns.  dmja carries latitude and longitude whenever df does: the merge with
\* coords then suffixes both pairs (_x, _y) and neither passes the final selection
CalculateTopCompteurs(df, top_n, ref) ==
    LET dmja == CalculateDmja(df)
        top == Ranked(dmja.rows, top_n)
        coords == DropDuplicates(ref)
    IN  IF Empty(dmja) THEN EmptyFrame
        ELSE IF WithCoordinates \subseteq df.columns \/ ref = <<>>
        THEN [columns |-> {"rang", "compteur_id", "dmja"}, rows |-> top]
        ELSE [columns |-> {"rang", "compteur_id", "dmja", "latitude", "longitude"},
              rows |-> [i \in 1..Len(top) |->
                LET m == FirstMatch(coords, LAMBDA c : c.compteur_id = top[i].compteur_id)
                IN  [rang |-> top[i].rang, compteur_id |-> top[i].compteur_id,
                     dmja |-> top[i].dmja,
                     latitude |-> IF IsNull(m) THEN Null ELSE m.latitude,
                     longitude |-> IF IsNull(m) THEN Null ELSE m.longitude]]]

\* calculate_compteurs_faible_activite
CalculateCompteursFaibleActivite(df, seuil_pct) ==
    LET dmja == CalculateDmja(df)
        mediane == Median([i \in 1..Len(dmja.rows) |-> dmja.rows[i].dmja])
        seuil == <<mediane[1] * seuil_pct, mediane[2] * 100>>
        faible_activite == SelectSeq(dmja.rows, LAMBDA r : RatLess(r.dmja, seuil))
    IN  IF Empty(dmja) THEN EmptyFrame
        ELSE [columns |-> dmja.columns \cup {"mediane_dmja", "seuil_pct"},
              rows |-> [i \in 1..Len(faible_activite) |->
                [c \in DOMAIN faible_activite[i] \cup {"mediane_dmja", "seuil_pct"} |->
                    IF c = "mediane_dmja" THEN mediane
                    ELSE IF c = "seuil_pct" THEN <<seuil_pct, 1>>
                    ELSE faible_activite[i][c]]]]

\* (now - derniere_mesure).dt.total_seconds() / 3600
HoursBetween(earlier, later) == (later.day - earlier.day) * 24 + later.hour - earlier.hour

\* detect_compteurs_defaillants; now is the value pd.Timestamp.now() returns
DetectCompteursDefaillants(df, seuil_heures, now) ==
    IF Empty(df) \/ "compteur_id" \notin df.columns \/ "date_heure" \notin df.columns
    THEN EmptyFrame
    ELSE LET frame == Timed(df.rows)
             ids == SortedIds({frame[i].compteur_id : i \in 1..Len(frame)})
             derniere_mesure ==
                [k \in 1..Len(ids) |->
                    LET mine == SelectSeq(frame, LAMBDA r : r.compteur_id = ids[k])
                        last == CHOOSE t \in {mine[i].date_heure : i \in 1..Len(mine)} :
                                    \A i \in 1..Len(mine) : StampLeq(mine[i].date_heure, t)
                    IN  [compteur_id |-> ids[k],
                         derniere_mesure |-> last,
                         heures_sans_donnees |-> <<HoursBetween(last, now), 1>>,
                         status |-> "Defaillant"]]
         IN  [columns |-> {"compteur_id", "derniere_mesure", "heures_sans_donnees", "status"},
              rows |-> SelectSeq(derniere_mesure,
                        LAMBDA r : RatLess(<<seuil_heures, 1>>, r.heures_sans_donnees))]

\* calculate_densite_par_zone; df_geo is None (Null) or a relation
CalculateDensiteParZone(df, df_geo) ==
    IF Empty(df) \/ "compteur_id" \notin df.columns \/ "comptage_horaire" \notin df.columns
    THEN EmptyFrame
    ELSE IF IsNull(df_geo) \/ Empty(df_geo) \/ "arrondissement" \notin df.columns
    THEN EmptyFrame
    ELSE LET zones == SelectSeq(ZoneOrder, LAMBDA z :
                        \E i \in 1..Len(df.rows) : df.rows[i].arrondissement = z)
         IN  [columns |-> {"arrondissement", "debit_total", "debit_moyen", "nb_mesures"},
              rows |-> [k \in 1..Len(zones) |->
                LET mine == Counts(SelectSeq(df.rows,
                                LAMBDA r : r.arrondissement = zones[k]))
                IN  [arrondissement |-> zones[k],
                     debit_total |-> Sum(mine),
                     debit_moyen |-> <<Sum(mine), Len(mine)>>,
                     nb_mesures |-> Len(mine)]]]

\* the period of a timestamp: its day, its week (Monday to Sunday, 2025-01-01 being a
\* Wednesday) or its month (of January and February 2025)
PeriodOf(ts, periode) ==
    IF periode = "jour" THEN ts.day
    ELSE IF periode = "semaine" THEN (ts.day + 2) \div 7
    ELSE ts.day \div 31

\* calculate_evolution_temporelle
CalculateEvolutionTemporelle(df, periode) ==
    IF Empty(df) \/ "date_heure" \notin df.columns \/ "comptage_horaire" \notin df.columns
    THEN EmptyFrame
    ELSE IF periode \notin {"jour", "semaine", "mois"} THEN EmptyFrame
    ELSE LET frame == Timed(df.rows)
             periodes == SortAscending({PeriodOf(frame[i].date_heure, periode) :
                                            i \in 1..Len(frame)})
             debit_total(k) ==
                Sum(Counts(SelectSeq(frame,
                        LAMBDA r : PeriodOf(r.date_heure, periode) = periodes[k])))
         IN  [columns |-> {"periode", "debit_total", "debit_precedent",
                           "variation_absolue", "taux_croissance_pct"},
              rows |-> [k \in 1..Len(periodes) |->
                [periode |-> [unit |-> periode, index |-> periodes[k]],
                 debit_total |-> debit_total(k),
                 debit_precedent |-> IF k = 1 THEN Null ELSE Cell(debit_total(k - 1)),
                 variation_absolue |->
                    IF k = 1 THEN Null ELSE Cell(debit_total(k) - debit_total(k - 1)),
                 taux_croissance_pct |->
                    IF k = 1 THEN Null
                    ELSE [rat |-> RoundFloat(<<(debit_total(k) - debit_total(k - 1)) * 100,
                                               debit_total(k - 1)>>, 2)]]]]

-----------------------------------------------------------------------------
(* calculate_score_criticite_chantiers and calculate_qualite_service_aggregate:
   metrics.py 756-856 *)

\* pd.DataFrame({"nb_chantiers": [n], "score_criticite": [n * 1.0]})
BasicScore(n) ==
    [columns |-> {"nb_chantiers", "score_criticite"},
     rows |-> << [nb_chantiers |-> n, score_criticite |-> <<n, 1>>] >>]

\* sur_chaussee.groupby("arrondissement").agg(size, mean of surface) and the score
ScoreByZone(sur_chaussee) ==
    LET zones == SelectSeq(ZoneOrder,
                    LAMBDA z : \E i \in 1..Len(sur_chaussee) :
                                  sur_chaussee[i].arrondissement = z)
        of(z) == SelectSeq(sur_chaussee, LAMBDA r : r.arrondissement = z)
        surfaces(z) == [i \in 1..Len(of(z)) |-> <<of(z)[i].surface, 1>>]
    IN  [columns |-> {"arrondissement", "nb_chantiers_chaussee", "surface_moyenne",
                      "score_criticite"},
         rows |-> [k \in 1..Len(zones) |->
                    [arrondissement |-> zones[k],
                     nb_chantiers_chaussee |-> Len(of(zones[k])),
                     surface_moyenne |-> RatMean(surfaces(zones[k])),
                     score_criticite |->
                        Round(<<Len(of(zones[k])) * RatMean(surfaces(zones[k]))[1],
                                RatMean(surfaces(zones[k]))[2]>>, 2)]]]

\* calculate_score_criticite_chantiers
CalculateScoreCriticiteChantiers(df) ==
    LET sur_chaussee == IF "emprise_chaussee" \in df.columns
                        THEN SelectSeq(df.rows, LAMBDA r : r.emprise_chaussee)
                        ELSE df.rows
    IN  IF Empty(df) \/ sur_chaussee = <<>> THEN BasicScore(0)
        ELSE IF {"arrondissement", "surface"} \subseteq df.columns
        THEN ScoreByZone(sur_chaussee)
        ELSE BasicScore(Len(sur_chaussee))

\* the grouping columns in the order of lines 810-815, with their values in the
\* order groupby sorts them
GroupColumns == <<"operateur", "mode", "trimestre">>
GroupValues(column) ==
    CASE column = "operateur" -> <<"RATP", "SNCF">>
      [] column = "mode" -> <<"bus", "metro">>
      [] column = "trimestre" -> <<"T1", "T2">>

\* the keys of df.groupby(group_cols) in sorted order
GroupKeys(df, group_cols) ==
    LET all == Flatten([i \in 1..2 |-> Flatten([j \in 1..2 |-> [k \in 1..2 |->
                  [operateur |-> GroupValues("operateur")[i],
                   mode |-> GroupValues("mode")[j],
                   trimestre |-> GroupValues("trimestre")[k]]]])])
        present(key) == \E n \in 1..Len(df.rows) :
                            Project(df.rows[n], group_cols) = Project(key, group_cols)
        first(n) == \A m \in 1..(n - 1) :
                        Project(all[m], group_cols) # Project(all[n], group_cols)
        kept == SelectSeq([n \in 1..Len(all) |-> n],
                          LAMBDA n : present(all[n]) /\ first(n))
    IN  [n \in 1..Len(kept) |-> Project(all[kept[n]], group_cols)]

\* the columns and the cells the aggregations of lines 818-822 add for the rows
Aggregated(df, rows) ==
    LET scores == [i \in 1..Len(rows) |-> <<rows[i].score_qualite, 1>>]
        penalites == [i \in 1..Len(rows) |-> rows[i].penalites]
        names == (IF "score_qualite" \in df.columns THEN {"score_qualite_moyen"} ELSE {})
                 \cup (IF "penalites" \in df.columns THEN {"penalites_total"} ELSE {})
    IN  [c \in names |-> IF c = "score_qualite_moyen" THEN RatMean(scores)
                         ELSE Sum(penalites)]

\* calculate_qualite_service_aggregate
CalculateQualiteServiceAggregate(df) ==
    LET group_cols == {GroupColumns[i] : i \in 1..3} \cap df.columns
        agg == Aggregated(df, df.rows)
        keys == GroupKeys(df, group_cols)
        of(key) == SelectSeq(df.rows, LAMBDA r : Project(r, group_cols) = key)
        count == [nb_enregistrements |-> Len(df.rows)]
    IN  IF Empty(df)
        THEN [columns |-> {"nb_enregistrements"}, rows |-> << [nb_enregistrements |-> 0] >>]
        ELSE IF group_cols = {} /\ DOMAIN agg = {}
        THEN [columns |-> {"nb_enregistrements", "description"},
              rows |-> << [nb_enregistrements |-> Len(df.rows),
                           description |-> "Donnees qualite service disponibles"] >>]
        ELSE IF group_cols = {}
        THEN [columns |-> {"nb_enregistrements"} \cup DOMAIN agg,
              rows |-> << count @@ agg >>]
        ELSE IF DOMAIN agg = {}
        THEN [columns |-> group_cols \cup {"nb_enregistrements"},
              rows |-> [k \in 1..Len(keys) |->
                          keys[k] @@ [nb_enregistrements |-> Len(of(keys[k]))]]]
        ELSE [columns |-> group_cols \cup DOMAIN agg,
              rows |-> [k \in 1..Len(keys) |-> keys[k] @@ Aggregated(df, of(keys[k]))]]

-----------------------------------------------------------------------------
(* Each counter-reading metric function on a relation that may lack columns *)

MetricFunctions ==
    {"calculate_debit_horaire", "calculate_debit_journalier", "calculate_dmja",
     "calculate_profil_jour_type", "calculate_heures_pointe",
     "calculate_taux_disponibilite", "calculate_top_compteurs",
     "calculate_compteurs_faible_activite", "detect_compteurs_defaillants",
     "calculate_densite_par_zone", "identify_corridors_cyclables",
     "calculate_evolution_temporelle", "calculate_ratio_weekend_semaine",
     "detect_congestion_cyclable", "detect_anomalies_zscore"}

\* the function of that name called on df with the defaults of its other parameters
MetricFunction(name, df, now, ref) ==
    CASE name = "calculate_debit_horaire" -> CalculateDebitHoraire(df)
      [] name = "calculate_debit_journalier" -> CalculateDebitJournalier(df, 50, 60)
      [] name = "calculate_dmja" -> CalculateDmja(df)
      [] name = "calculate_profil_jour_type" -> CalculateProfilJourType(df)
      [] name = "calculate_heures_pointe" -> CalculateHeuresPointe(df, 120)
      [] name = "calculate_taux_disponibilite" -> CalculateTauxDisponibilite(df, 30)
      [] name = "calculate_top_compteurs" -> CalculateTopCompteurs(df, 200, ref)
      [] name = "calculate_compteurs_faible_activite" ->
            CalculateCompteursFaibleActivite(df, 20)
      [] name = "detect_compteurs_defaillants" -> DetectCompteursDefaillants(df, 24, now)
      [] name = "calculate_densite_par_zone" -> CalculateDensiteParZone(df, Null)
      [] name = "identify_corridors_cyclables" -> IdentifyCorridorsCyclables(df, 75)
      [] name = "calculate_evolution_temporelle" ->
            CalculateEvolutionTemporelle(df, "semaine")
      [] name = "calculate_ratio_weekend_semaine" -> CalculateRatioWeekendSemaine(df)
      [] name = "detect_congestion_cyclable" -> DetectCongestionCyclable(df, 150, 500)
      [] name = "detect_anomalies_zscore" -> DetectAnomaliesZscore(df, <<3, 1>>, 200)

\* counter-reading relations with any of their columns absent; a relation without
\* columns has no row
PartialRelations ==
    { [columns |-> cols,
       rows |-> IF cols = {} THEN <<>>
                ELSE [i \in 1..Len(rows) |-> Project(rows[i], cols)]] :
        cols \in SUBSET BaseColumns,
        rows \in SeqsUpTo([compteur_id : {"A", "B"}, date_heure : {Null, Stamp(2, 8)},
                           comptage_horaire : {1, 2}], MaxPartialRows) }

GuardsInit ==
    /\ m_df \in PartialRelations
    /\ m_param \in [function : MetricFunctions]
    /\ m_local = Null
    /\ m_result = Null
    /\ pc_metric = "input"

\* one metric function called on the relation; the clock and the reference table are
\* what they are at the time of the call
CallMetricFunction ==
    /\ pc_metric = "input"
    /\ \E now \in WallClock, ref \in RefTables :
          m_result' = MetricFunction(m_param.function, m_df, now, ref)
    /\ pc_metric' = "done"
    /\ UNCHANGED <<m_df, m_param, m_local, metricOthers>>

GuardsNext == CallMetricFunction

-----------------------------------------------------------------------------
(* calculate_all_metrics: metrics.py 863-929 *)

\* the key of each counter-reading metric and the function that computes it
CounterMetrics ==
    [debit_horaire |-> "calculate_debit_horaire",
     debit_journalier |-> "calculate_debit_journalier",
     dmja |-> "calculate_dmja",
     profil_jour_type |-> "calculate_profil_jour_type",
     heures_pointe |-> "calculate_heures_pointe",
     taux_disponibilite |-> "calculate_taux_disponibilite",
     top_compteurs |-> "calculate_top_compteurs",
     compteurs_faible_activite |-> "calculate_compteurs_faible_activite",
     compteurs_defaillants |-> "detect_compteurs_defaillants",
     densite_par_zone |-> "calculate_densite_par_zone",
     corridors_cyclables |-> "identify_corridors_cyclables",
     evolution_hebdomadaire |-> "calculate_evolution_temporelle",
     ratio_weekend_semaine |-> "calculate_ratio_weekend_semaine",
     congestion_cyclable |-> "detect_congestion_cyclable",
     anomalies |-> "detect_anomalies_zscore"]

\* _enrich_comptage_with_coordinates as the metric functions see its result: an empty
\* relation comes back as it is, any other one with both coordinate columns, each row
\* holding the coordinates of its counter
EnrichedForMetrics(df) ==
    IF Empty(df) THEN df
    ELSE IF "compteur_id" \notin df.columns THEN Raised("KeyError")
    ELSE [columns |-> df.columns \cup WithCoordinates, rows |-> df.rows]

\* lines 886-891: df_comptage_velo[["compteur_id", "latitude", "longitude"]]
DebugSample(df) ==
    IF {"compteur_id", "latitude", "longitude"} \subseteq df.columns THEN df
    ELSE Raised("KeyError")

\* lines 894-918
CounterMetricsOf(df, df_geo, now, ref) ==
    [key \in DOMAIN CounterMetrics |->
        IF key = "densite_par_zone" THEN CalculateDensiteParZone(df, df_geo)
        ELSE MetricFunction(CounterMetrics[key], df, now, ref)]

\* lines 921-927; now is the value of the clock when calculate_chantiers_actifs reads it
OptionalMetricsOf(df_chantiers, df_qualite, now) ==
    LET chantiers == IF ~IsNull(df_chantiers) /\ ~Empty(df_chantiers)
                     THEN [chantiers_actifs |->
                              CalculateChantiersActifs(df_chantiers, Null, now),
                           score_criticite_chantiers |->
                              CalculateScoreCriticiteChantiers(df_chantiers)]
                     ELSE <<>>
        qualite == IF ~IsNull(df_qualite) /\ ~Empty(df_qualite)
                   THEN [qualite_service |-> CalculateQualiteServiceAggregate(df_qualite)]
                   ELSE <<>>
    IN  chantiers @@ qualite

\* calculate_all_metrics; clock holds the values pd.Timestamp.now() returns to
\* detect_compteurs_defaillants and then to calculate_chantiers_actifs
CalculateAllMetrics(df_comptage_velo, df_chantiers, df_qualite, df_geo, ref, clock) ==
    LET frame == EnrichedForMetrics(df_comptage_velo)
        counters == CounterMetricsOf(frame, df_geo, clock.defaillants, ref)
        raised == {key \in DOMAIN CounterMetrics : IsRaised(counters[key])}
    IN  IF IsRaised(frame) THEN frame
        ELSE IF IsRaised(DebugSample(frame)) THEN DebugSample(frame)
        ELSE IF raised # {} THEN Raised("KeyError")
        ELSE counters @@ OptionalMetricsOf(df_chantiers, df_qualite, clock.chantiers)

\* the counter readings of a day: no relation read (pd.DataFrame()), or readings
\* with or without coordinate columns
RunReadings ==
    {EmptyFrame} \cup
    { [columns |-> BaseColumns \cup cols, rows |-> rows] :
        cols \in {{}, WithCoordinates},
        rows \in SeqsUpTo([compteur_id : {"A", "B"},
                           date_heure : {Stamp(2, 8), Stamp(10, 8)},
                           comptage_horaire : {2}], MaxRunRows) }

\* the public-works input: None, empty, or one work site
RunChantiers ==
    {Null, EmptyFrame} \cup
    { [columns |-> cols,
       rows |-> << Project([arrondissement |-> "11e", date_debut |-> Stamp(0, 0),
                            date_fin |-> Stamp(9, 0), emprise_chaussee |-> TRUE,
                            surface |-> 12], cols) >>] :
        cols \in {{"arrondissement", "date_debut", "date_fin", "emprise_chaussee",
                   "surface"},
                  {"date_debut", "date_fin"}} }

\* the service-quality input: None, empty, or two records
RunQualite ==
    {Null, EmptyFrame} \cup
    { [columns |-> cols,
       rows |-> << Project([operateur |-> "SNCF", mode |-> "metro", trimestre |-> "T1",
                            score_qualite |-> 3, penalites |-> 2], cols),
                   Project([operateur |-> "RATP", mode |-> "metro", trimestre |-> "T1",
                            score_qualite |-> 4, penalites |-> 0], cols) >>] :
        cols \in {{"operateur", "mode", "trimestre", "score_qualite", "penalites"},
                  {"operateur"}} }

\* the clock does not go back between two reads
Clocks(after) ==
    { clock \in [defaillants : WallClock, chantiers : WallClock] :
        /\ IsNull(after) \/ StampLeq(after, clock.defaillants)
        /\ StampLeq(clock.defaillants, clock.chantiers) }

AllMetricsInit ==
    /\ m_df \in [comptage_velo : RunReadings, chantiers : RunChantiers,
                 qualite : RunQualite, ref : {<<>>}]
    /\ m_param = [clock |-> Null]
    /\ m_local = Null
    /\ m_result = Null
    /\ pc_metric = "input"

\* calculate_all_metrics on the day's inputs
RunAllMetrics ==
    /\ pc_metric = "input"
    /\ \E clock \in Clocks(Null) :
          /\ m_param' = [clock |-> clock.chantiers]
          /\ m_result' = CalculateAllMetrics(m_df.comptage_velo, m_df.chantiers,
                                             m_df.qualite, Null, m_df.ref, clock)
    /\ pc_metric' = "once"
    /\ UNCHANGED <<m_df, m_local, metricOthers>>

\* calculate_all_metrics a second time on the same inputs; m_local keeps what the
\* first run returned
RunAllMetricsAgain ==
    /\ pc_metric = "once"
    /\ \E clock \in Clocks(m_param.clock) :
          /\ m_param' = [clock |-> clock.chantiers]
          /\ m_result' = CalculateAllMetrics(m_df.comptage_velo, m_df.chantiers,
                                             m_df.qualite, Null, m_df.ref, clock)
    /\ m_local' = m_result
    /\ pc_metric' = "twice"
    /\ UNCHANGED <<m_df, metricOthers>>

AllMetricsNext == RunAllMetrics \/ RunAllMetricsAgain

-----------------------------------------------------------------------------
(* The correlators: aggregation.py 183-353 *)

RatMul(a, b) == <<a[1] * b[1], a[2] * b[2]>>
RatSub(a, b) == RatAdd(a, <<-b[1], b[2]>>)

\* DataFrame.corr() of two columns (Pearson): a signed square root of the rational
\* sq, NaN for fewer than two rows or a constant column
Corr(xs, ys) ==
    LET n == <<Len(xs), 1>>
        products(us, vs) == [i \in 1..Len(us) |-> RatMul(us[i], vs[i])]
        co(us, vs) == RatSub(RatMul(n, RatSum(products(us, vs))),
                             RatMul(RatSum(us), RatSum(vs)))
    IN  IF Len(xs) < 2 \/ co(xs, xs)[1] = 0 \/ co(ys, ys)[1] = 0 THEN NaN
        ELSE [sign |-> IF co(xs, ys)[1] > 0 THEN 1
                       ELSE IF co(xs, ys)[1] < 0 THEN -1 ELSE 0,
              sq |-> <<co(xs, ys)[1] * co(xs, ys)[1] * co(xs, xs)[2] * co(ys, ys)[2],
                       co(xs, ys)[2] * co(xs, ys)[2] * co(xs, xs)[1] * co(ys, ys)[1]>>]

\* the days of a column of timestamps, NaT dropped, in the order groupby sorts them
SortedDays(rows, column) ==
    SortAscending({ToDatetime(rows[i][column]).day :
                      i \in {j \in 1..Len(rows) : ~IsNull(ToDatetime(rows[j][column]))}})

\* the rows of a day
OnDay(rows, column, day) ==
    SelectSeq(rows, LAMBDA r : ~IsNull(ToDatetime(r[column])) /\
                               ToDatetime(r[column]).day = day)

\* frame_comptage.groupby("date")["comptage_horaire"].sum() renamed total_velos
TraficDaily(rows) ==
    [k \in 1..Len(SortedDays(rows, "date_heure")) |->
        [date |-> [day |-> SortedDays(rows, "date_heure")[k]],
         total_velos |-> Sum(Counts(OnDay(rows, "date_heure",
                                          SortedDays(rows, "date_heure")[k])))]]

\* the number of work sites whose dates both parsed and contain the day
NbChantiersActifs(chantiers, day) ==
    Len(SelectSeq(chantiers,
            LAMBDA r : /\ ~IsNull(ToDatetime(r.date_debut))
                       /\ ~IsNull(ToDatetime(r.date_fin))
                       /\ ToDatetime(r.date_debut).day <= day
                       /\ day <= ToDatetime(r.date_fin).day))

Column(rows, name) == [i \in 1..Len(rows) |-> rows[i][name]]

\* lines 225-242: the inner merge on date and the statistics added for several days
ChantiersVeloCorrelation(trafic_daily, chantiers) ==
    LET merged == [k \in 1..Len(trafic_daily) |->
                      trafic_daily[k] @@
                      [nb_chantiers_actifs |->
                          NbChantiersActifs(chantiers, trafic_daily[k].date.day)]]
        velos == Column(merged, "total_velos")
        stats == [correlation_chantiers_velo |->
                     Corr(AsRats(velos), AsRats(Column(merged, "nb_chantiers_actifs"))),
                  moyenne_velos |-> Stats(velos).mean,
                  ecart_type_velos |-> Stats(velos).std]
    IN  IF Len(merged) > 1
        THEN [columns |-> {"date", "total_velos", "nb_chantiers_actifs"}
                          \cup DOMAIN stats,
              rows |-> [k \in 1..Len(merged) |-> merged[k] @@ stats]]
        ELSE [columns |-> {"date", "total_velos", "nb_chantiers_actifs"},
              rows |-> merged]

\* correlate_chantiers_velo; with no day in the readings chantiers_daily has no
\* column and the merge on "date" raises
CorrelateChantiersVelo(df_velo, df_chantiers) ==
    IF Empty(df_velo) \/ Empty(df_chantiers) THEN EmptyFrame
    ELSE IF ~({"date_heure", "comptage_horaire"} \subseteq df_velo.columns)
    THEN EmptyFrame
    ELSE IF ~({"date_debut", "date_fin"} \subseteq df_chantiers.columns) THEN EmptyFrame
    ELSE IF TraficDaily(df_velo.rows) = <<>> THEN Raised("KeyError")
    ELSE ChantiersVeloCorrelation(TraficDaily(df_velo.rows), df_chantiers.rows)

\* the periods of the quality relation in the order groupby sorts them
PeriodOrder == <<"T1", "T2">>

\* frame_qualite.groupby(date_col)[score_col].mean() renamed periode, score_moyen_qualite
QualiteAgg(rows, date_col, score_col) ==
    LET periods == SelectSeq(PeriodOrder,
                      LAMBDA t : \E i \in 1..Len(rows) : rows[i][date_col] = t)
    IN  [columns |-> {"periode", "score_moyen_qualite"},
         rows |-> [k \in 1..Len(periods) |->
                    [periode |-> periods[k],
                     score_moyen_qualite |->
                        RatMean(AsRats(Column(SelectSeq(rows,
                            LAMBDA r : r[date_col] = periods[k]), score_col)))]]]

\* correlate_qualite_validations
CorrelateQualiteValidations(df_qualite, df_validations) ==
    LET date_cols == SelectSeq(<<"date", "trimestre", "periode">>,
                               LAMBDA c : c \in df_qualite.columns)
        score_cols == SelectSeq(<<"score_qualite", "ponctualite">>,
                                LAMBDA c : c \in df_qualite.columns)
    IN  IF Empty(df_qualite) \/ Empty(df_validations) THEN EmptyFrame
        ELSE IF ~({"date", "nb_validations"} \subseteq df_validations.columns)
        THEN EmptyFrame
        ELSE IF date_cols = <<>> THEN EmptyFrame
        ELSE IF score_cols = <<>> THEN EmptyFrame
        ELSE QualiteAgg(df_qualite.rows, date_cols[1], score_cols[1])

\* frame_weather.groupby("date").agg(mean of tempmax, sum of precip)
WeatherDaily(rows) ==
    [k \in 1..Len(SortedDays(rows, "datetime")) |->
        [date |-> [day |-> SortedDays(rows, "datetime")[k]],
         temperature_max |->
            RatMean(AsRats(Column(OnDay(rows, "datetime", SortedDays(rows, "datetime")[k]),
                                  "tempmax"))),
         precipitation |->
            Sum(Column(OnDay(rows, "datetime", SortedDays(rows, "datetime")[k]), "precip"))]]

\* lines 338-348: the inner merge on date and the two coefficients
MeteoVeloCorrelation(comptage_daily, weather_daily) ==
    LET matched == SelectSeq(comptage_daily,
                      LAMBDA c : \E k \in 1..Len(weather_daily) :
                                    weather_daily[k].date = c.date)
        weather(c) == weather_daily[CHOOSE k \in 1..Len(weather_daily) :
                                        weather_daily[k].date = c.date]
        merged == [i \in 1..Len(matched) |-> matched[i] @@ weather(matched[i])]
        velos == AsRats(Column(merged, "total_velos"))
        coefficients ==
            [correlation_temperature |-> Corr(velos, Column(merged, "temperature_max")),
             correlation_precipitation |->
                Corr(velos, AsRats(Column(merged, "precipitation")))]
    IN  IF merged = <<>>
        THEN [columns |-> {"date", "total_velos", "temperature_max", "precipitation"},
              rows |-> <<>>]
        ELSE [columns |-> {"date", "total_velos", "temperature_max", "precipitation"}
                          \cup DOMAIN coefficients,
              rows |-> [i \in 1..Len(merged) |-> merged[i] @@ coefficients]]

\* correlate_meteo_velo: a "date" column is added to each input only when it has its
\* timestamp column, and both are grouped by "date"
CorrelateMeteoVelo(df_weather, df_velo) ==
    IF Empty(df_weather) \/ Empty(df_velo) THEN EmptyFrame
    ELSE IF ~({"date_heure", "comptage_horaire"} \subseteq df_velo.columns)
    THEN Raised("KeyError")
    ELSE IF ~({"tempmax", "precip"} \subseteq df_weather.columns) THEN EmptyFrame
    ELSE IF "datetime" \notin df_weather.columns THEN Raised("KeyError")
    ELSE MeteoVeloCorrelation(TraficDaily(df_velo.rows),
                              WeatherDaily(df_weather.rows))

Correlators ==
    {"correlate_chantiers_velo", "correlate_qualite_validations", "correlate_meteo_velo"}

\* the columns a correlator reads in its first and in its second input
CorrelatorColumns(name) ==
    CASE name = "correlate_chantiers_velo" ->
            <<{"date_heure", "comptage_horaire"}, {"date_debut", "date_fin"}>>
      [] name = "correlate_qualite_validations" ->
            <<{"trimestre", "score_qualite"}, {"date", "nb_validations"}>>
      [] name = "correlate_meteo_velo" ->
            <<{"datetime", "tempmax", "precip"}, {"date_heure", "comptage_horaire"}>>

\* the rows of the two inputs of a correlator, with every column it reads
CorrelatorRows(name) ==
    CASE name = "correlate_chantiers_velo" ->
            <<[date_heure : {Null, Stamp(2, 8), Stamp(3, 8)}, comptage_horaire : {1}],
              [date_debut : {Stamp(2, 0)}, date_fin : {Null, Stamp(3, 0)}]>>
      [] name = "correlate_qualite_validations" ->
            <<[trimestre : {"T1", "T2"}, score_qualite : {1, 2}],
              [date : {Stamp(2, 0)}, nb_validations : {1, 2}]>>
      [] name = "correlate_meteo_velo" ->
            <<[datetime : {Null, Stamp(2, 8), Stamp(3, 8)}, tempmax : {10, 20},
               precip : {1}],
              [date_heure : {Null, Stamp(2, 8), Stamp(3, 8)}, comptage_horaire : {1}]>>

\* relations over some of the given columns; one without any of them still has rows
RelationsOver(rowset, columns) ==
    { [columns |-> cols, rows |-> [i \in 1..Len(rows) |-> Project(rows[i], cols)]] :
        cols \in SUBSET columns,
        rows \in SeqsUpTo(rowset, MaxCorrelateRows) }

CorrelateInit ==
    /\ m_param \in [function : Correlators]
    /\ m_df \in [first : RelationsOver(CorrelatorRows(m_param.function)[1],
                                       CorrelatorColumns(m_param.function)[1]),
                 second : RelationsOver(CorrelatorRows(m_param.function)[2],
                                        CorrelatorColumns(m_param.function)[2])]
    /\ m_local = Null
    /\ m_result = Null
    /\ pc_metric = "input"

\* one correlator called on its two inputs
CallCorrelator ==
    /\ pc_metric = "input"
    /\ m_result' =
          CASE m_param.function = "correlate_chantiers_velo" ->
                  CorrelateChantiersVelo(m_df.first, m_df.second)
            [] m_param.function = "correlate_qualite_validations" ->
                  CorrelateQualiteValidations(m_df.first, m_df.second)
            [] m_param.function = "correlate_meteo_velo" ->
                  CorrelateMeteoVelo(m_df.first, m_df.second)
    /\ pc_metric' = "done"
    /\ UNCHANGED <<m_df, m_param, m_local, metricOthers>>

CorrelateNext == CallCorrelator

-----------------------------------------------------------------------------
(* The report builders: reports.py 14-444.  A cell of a relation is its dtype and
   whether it holds a value, NaN (or NaT) or an infinity; a value of a document is
   its Python type, a list or a dict. *)

TypedCell(dtype, state) == [dtype |-> dtype, state |-> state]
Leaf(kind, value) == [kind |-> kind, value |-> value]
List(items) == [kind |-> "list", items |-> items]
Dict(items) == [kind |-> "dict", items |-> items]

\* df.replace([np.inf, -np.inf], np.nan) and the loop of lines 24-35 on one cell
ConvertCell(cell) ==
    LET is_na == cell.state = "nan" \/ (cell.dtype = "float64" /\ cell.state = "inf")
    IN  IF is_na THEN Leaf("NoneType", "None")
        ELSE IF cell.dtype = "int64" THEN Leaf("int", "cell")
        ELSE IF cell.dtype = "float64" THEN Leaf("float", "cell")
        ELSE IF cell.dtype = "Timestamp" THEN Leaf("str", "isoformat")
        ELSE IF cell.dtype = "bool_" THEN Leaf("bool", "cell")
        ELSE Leaf(cell.dtype, "cell")

\* _df_to_records
DfToRecords(df) ==
    IF Empty(df) THEN List(<<>>)
    ELSE List([i \in 1..Len(df.rows) |->
                  Dict([c \in df.columns |-> ConvertCell(df.rows[i][c])])])

\* df.head(n)
HeadRows(df, n) ==
    [columns |-> df.columns,
     rows |-> SubSeq(df.rows, 1, IF Len(df.rows) < n THEN Len(df.rows) ELSE n)]

\* df.nlargest(n, column): the infinite cells first, then the others; a missing
\* column raises
NLargestTyped(df, n, column) ==
    IF column \notin df.columns THEN Raised("KeyError")
    ELSE HeadRows([columns |-> df.columns,
                   rows |-> SelectSeq(df.rows, LAMBDA r : r[column].state = "inf")
                            \o SelectSeq(df.rows, LAMBDA r : r[column].state = "value")],
                  n)

\* "name" in metrics and not metrics["name"].empty
Available(metrics, name) == name \in DOMAIN metrics /\ ~Empty(metrics[name])

\* datetime.now().isoformat()
DateGeneration == Leaf("str", "isoformat")

\* generate_resume_executif
GenerateResumeExecutif(comptage, metrics, date) ==
    LET evolution == metrics["evolution_hebdomadaire"]
        dernier_taux == evolution.rows[Len(evolution.rows)]["taux_croissance_pct"]
    IN  Dict([date |-> date,
              total_passages |->
                 IF ~Empty(comptage) /\ "comptage_horaire" \in comptage.columns
                 THEN Leaf("int", "sum") ELSE Leaf("int", "0"),
              compteurs_actifs |->
                 IF ~Empty(comptage) /\ "compteur_id" \in comptage.columns
                 THEN Leaf("int", "nunique") ELSE Leaf("int", "0"),
              compteurs_defaillants |->
                 IF Available(metrics, "compteurs_defaillants")
                 THEN Leaf("int", "len") ELSE Leaf("int", "0"),
              evolution_vs_hier |-> Leaf("str", "N/A"),
              evolution_vs_semaine_derniere |->
                 IF /\ Available(metrics, "evolution_hebdomadaire")
                    /\ "taux_croissance_pct" \in evolution.columns
                    /\ dernier_taux.state # "nan"
                 THEN Leaf("str", "formatted") ELSE Leaf("str", "N/A")])

\* a report of one list of records under the given key
OneListReport(titre, key, records) ==
    IF IsRaised(records) THEN records
    ELSE Dict([k \in {"titre", "date_generation", key} |->
                  IF k = "titre" THEN Leaf("str", titre)
                  ELSE IF k = "date_generation" THEN DateGeneration
                  ELSE records])

\* generate_top_compteurs_report whose test of the key is left out
GenerateTopCompteursReport_NoKeyTest(metrics, limit) ==
    OneListReport("Top Compteurs", "compteurs",
        IF "top_compteurs" \notin DOMAIN metrics THEN Raised("KeyError")
        ELSE IF ~Empty(metrics["top_compteurs"])
        THEN DfToRecords(HeadRows(metrics["top_compteurs"], limit))
        ELSE List(<<>>))

\* generate_top_compteurs_report
GenerateTopCompteursReport(metrics, limit) ==
    OneListReport("Top Compteurs", "compteurs",
        IF Available(metrics, "top_compteurs")
        THEN DfToRecords(HeadRows(metrics["top_compteurs"], limit))
        ELSE List(<<>>))

\* generate_zones_congestionnees_report
GenerateZonesCongestionneesReport(metrics) ==
    LET congestions == NLargestTyped(metrics["congestion_cyclable"], 20, "depassement_pct")
    IN  OneListReport("Zones les Plus Congestionnees", "zones",
            IF ~Available(metrics, "congestion_cyclable") THEN List(<<>>)
            ELSE IF IsRaised(congestions) THEN congestions
            ELSE DfToRecords(congestions))

\* generate_compteurs_defaillants_report
GenerateCompteursDefaillantsReport(metrics) ==
    OneListReport("Compteurs Defaillants", "compteurs",
        IF Available(metrics, "compteurs_defaillants")
        THEN DfToRecords(metrics["compteurs_defaillants"])
        ELSE List(<<>>))

\* float(row[column]) if pd.notna(row[column]) else None
FloatOrNone(cell) ==
    IF cell.state = "nan" THEN Leaf("NoneType", "None") ELSE Leaf("float", "cell")

\* the alerts lines 217-256 build for the rows of one metric: the columns cast with
\* str, those cast with float, and the message
AlertesOf(metrics, name, type, limit, as_str, as_float) ==
    LET df == HeadRows(metrics[name], limit)
        alerte(row) ==
            Dict([k \in {"type", "message"} \cup as_str \cup as_float |->
                    IF k = "type" THEN Leaf("str", type)
                    ELSE IF k = "message" THEN Leaf("str", "formatted")
                    ELSE IF k \in as_str THEN Leaf("str", "str")
                    ELSE FloatOrNone(row[k])])
    IN  IF ~Available(metrics, name) THEN <<>>
        ELSE [i \in 1..Len(df.rows) |-> alerte(df.rows[i])]

\* the columns the loop over the rows of a metric reads
AlerteColumns(name) ==
    CASE name = "congestion_cyclable" ->
            {"compteur_id", "date_heure", "comptage_horaire", "seuil_pct",
             "depassement_pct"}
      [] name = "anomalies" -> {"compteur_id", "date_heure", "zscore", "type_anomalie"}
      [] name = "compteurs_defaillants" -> {"compteur_id", "heures_sans_donnees"}

\* generate_alertes_report; "debit" is read in comptage_horaire
GenerateAlertesReport(metrics) ==
    LET unreadable == {name \in {"congestion_cyclable", "anomalies",
                                 "compteurs_defaillants"} :
                          /\ Available(metrics, name)
                          /\ ~(AlerteColumns(name) \subseteq metrics[name].columns)}
        congestion == AlertesOf(metrics, "congestion_cyclable", "pic_congestion", 10,
                                {"compteur_id", "date_heure"},
                                {"comptage_horaire", "seuil_pct"})
        anomalies == AlertesOf(metrics, "anomalies", "anomalie", 10,
                               {"compteur_id", "date_heure", "type_anomalie"},
                               {"zscore"})
        defaillants == AlertesOf(metrics, "compteurs_defaillants", "compteur_defaillant",
                                 20, {"compteur_id"}, {"heures_sans_donnees"})
    IN  OneListReport("Alertes de la Journee", "alertes",
            IF unreadable # {} THEN Raised("KeyError")
            ELSE List(congestion \o anomalies \o defaillants))

\* profil_df["jour"].unique(): the day names of a profile
JoursOf(rows) ==
    {rows[i]["jour"].text : i \in 1..Len(rows)}

\* generate_profil_jour_type_report: the records of each day under the day's name
GenerateProfilJourTypeReport(metrics) ==
    LET profil_df == metrics["profil_jour_type"]
        of(jour) == [columns |-> profil_df.columns,
                     rows |-> SelectSeq(profil_df.rows, LAMBDA r : r["jour"].text = jour)]
    IN  OneListReport("Profils Jour Type", "profils",
            IF ~Available(metrics, "profil_jour_type") THEN Dict(<<>>)
            ELSE IF "jour" \notin profil_df.columns THEN Raised("KeyError")
            ELSE Dict([jour \in JoursOf(profil_df.rows) |-> DfToRecords(of(jour))]))

\* generate_chantiers_report
GenerateChantiersReport(metrics) ==
    Dict([titre |-> Leaf("str", "Analyse des Chantiers"),
          date_generation |-> DateGeneration,
          chantiers_actifs |->
             IF Available(metrics, "chantiers_actifs")
             THEN DfToRecords(metrics["chantiers_actifs"]) ELSE List(<<>>),
          zones_critiques |->
             IF Available(metrics, "score_criticite_chantiers")
             THEN DfToRecords(metrics["score_criticite_chantiers"]) ELSE List(<<>>)])

\* generate_tendances_report: the ratio entry is the metric itself
GenerateTendancesReport(metrics) ==
    Dict([titre |-> Leaf("str", "Tendances et Evolutions"),
          date_generation |-> DateGeneration,
          evolution_hebdomadaire |->
             IF Available(metrics, "evolution_hebdomadaire")
             THEN DfToRecords(metrics["evolution_hebdomadaire"]) ELSE List(<<>>),
          ratio_weekend_semaine |->
             IF "ratio_weekend_semaine" \in DOMAIN metrics
             THEN Leaf("DataFrame", "ratio_weekend_semaine")
             ELSE Dict(<<>>)])

\* generate_qualite_service_report
GenerateQualiteServiceReport(metrics) ==
    OneListReport("Qualite de Service des Transports", "indicateurs",
        IF Available(metrics, "qualite_service")
        THEN DfToRecords(metrics["qualite_service"])
        ELSE List(<<>>))

\* the sections of generate_rapport_complet, each by its builder
Sections(comptage, metrics, date) ==
    [resume_executif |-> GenerateResumeExecutif(comptage, metrics, date),
     top_compteurs |-> GenerateTopCompteursReport(metrics, 10),
     zones_congestionnees |-> GenerateZonesCongestionneesReport(metrics),
     compteurs_defaillants |-> GenerateCompteursDefaillantsReport(metrics),
     alertes |-> GenerateAlertesReport(metrics),
     profil_jour_type |-> GenerateProfilJourTypeReport(metrics),
     chantiers |-> GenerateChantiersReport(metrics),
     tendances |-> GenerateTendancesReport(metrics),
     qualite_service |-> GenerateQualiteServiceReport(metrics)]

\* generate_rapport_complet
GenerateRapportComplet(comptage, metrics, date) ==
    LET sections == Sections(comptage, metrics, date)
        meta == [meta |-> Dict([titre |-> Leaf("str", "Rapport Quotidien"),
                                date |-> date,
                                date_generation |-> DateGeneration,
                                version |-> Leaf("str", "2.0")])]
    IN  IF \E k \in DOMAIN sections : IsRaised(sections[k]) THEN Raised("KeyError")
        ELSE Dict(meta @@ sections)

\* the names of a mapping in the order of the keys of calculate_all_metrics
MetricOrder ==
    <<"debit_horaire", "debit_journalier", "dmja", "profil_jour_type", "heures_pointe",
      "taux_disponibilite", "top_compteurs", "compteurs_faible_activite",
      "compteurs_defaillants", "densite_par_zone", "corridors_cyclables",
      "evolution_hebdomadaire", "ratio_weekend_semaine", "congestion_cyclable",
      "anomalies", "chantiers_actifs", "score_criticite_chantiers", "qualite_service">>

\* generate_metrics_summary: every metric of the mapping is a relation
GenerateMetricsSummary(metrics) ==
    LET names == SelectSeq(MetricOrder, LAMBDA name : name \in DOMAIN metrics)
        info(name) == Dict([nom |-> Leaf("str", name),
                            type |-> Leaf("str", "DataFrame"),
                            nb_lignes |-> Leaf("int", "len"),
                            colonnes |-> List([i \in 1..Cardinality(metrics[name].columns)
                                                 |-> Leaf("str", "column")])])
    IN  Dict([meta |-> Dict([titre |-> Leaf("str", "Resume des Metriques"),
                             date_generation |-> DateGeneration]),
              metriques_disponibles |-> List([i \in 1..Len(names) |-> info(names[i])])])

ReportBuilders ==
    {"generate_resume_executif", "generate_top_compteurs_report",
     "generate_zones_congestionnees_report", "generate_compteurs_defaillants_report",
     "generate_alertes_report", "generate_profil_jour_type_report",
     "generate_chantiers_report", "generate_tendances_report",
     "generate_qualite_service_report", "generate_rapport_complet",
     "generate_metrics_summary"}

\* the builder of that name on the day's readings and metrics
ReportBuilder(name, comptage, metrics, date) ==
    CASE name = "generate_resume_executif" ->
            GenerateResumeExecutif(comptage, metrics, date)
      [] name = "generate_top_compteurs_report" -> GenerateTopCompteursReport(metrics, 10)
      [] name = "generate_zones_congestionnees_report" ->
            GenerateZonesCongestionneesReport(metrics)
      [] name = "generate_compteurs_defaillants_report" ->
            GenerateCompteursDefaillantsReport(metrics)
      [] name = "generate_alertes_report" -> GenerateAlertesReport(metrics)
      [] name = "generate_profil_jour_type_report" ->
            GenerateProfilJourTypeReport(metrics)
      [] name = "generate_chantiers_report" -> GenerateChantiersReport(metrics)
      [] name = "generate_tendances_report" -> GenerateTendancesReport(metrics)
      [] name = "generate_qualite_service_report" -> GenerateQualiteServiceReport(metrics)
      [] name = "generate_rapport_complet" ->
            GenerateRapportComplet(comptage, metrics, date)
      [] name = "generate_metrics_summary" -> GenerateMetricsSummary(metrics)

\* the dtype of each column of the metrics the reports read, as the metric functions
\* build them
MetricDtypes(name) ==
    CASE name = "top_compteurs" ->
            [rang |-> "int64", compteur_id |-> "str", dmja |-> "float64"]
      [] name = "congestion_cyclable" ->
            [compteur_id |-> "str", date_heure |-> "Timestamp",
             comptage_horaire |-> "int64", debit_moyen |-> "float64",
             seuil_pct |-> "float64", depassement_pct |-> "float64"]
      [] name = "compteurs_defaillants" ->
            [compteur_id |-> "str", derniere_mesure |-> "Timestamp",
             heures_sans_donnees |-> "float64", status |-> "str"]
      [] name = "anomalies" ->
            [compteur_id |-> "str", date_heure |-> "Timestamp",
             comptage_horaire |-> "int64", mean |-> "float64", std |-> "float64",
             zscore |-> "float64", type_anomalie |-> "str"]
      [] name = "profil_jour_type" ->
            [jour |-> "str", heure |-> "int64", debit_moyen |-> "float64"]
      [] name = "chantiers_actifs" ->
            [arrondissement |-> "str", nb_chantiers_actifs |-> "int64"]
      [] name = "score_criticite_chantiers" ->
            [nb_chantiers |-> "int64", score_criticite |-> "float64"]
      [] name = "evolution_hebdomadaire" ->
            [periode |-> "str", debit_total |-> "int64", debit_precedent |-> "float64",
             variation_absolue |-> "float64", taux_croissance_pct |-> "float64"]
      [] name = "ratio_weekend_semaine" ->
            [debit_weekend |-> "int64", debit_semaine |-> "int64",
             ratio_weekend_semaine |-> "float64", difference_pct |-> "float64"]
      [] name = "qualite_service" ->
            [operateur |-> "str", score_qualite_moyen |-> "float64",
             penalites_total |-> "int64"]

\* the cells that may be NaN (or NaT) and those that may be infinite
MayBeNaN ==
    {<<"evolution_hebdomadaire", "debit_precedent">>,
     <<"evolution_hebdomadaire", "variation_absolue">>,
     <<"congestion_cyclable", "date_heure">>,
     <<"anomalies", "date_heure">>,
     <<"anomalies", "std">>,
     <<"ratio_weekend_semaine", "ratio_weekend_semaine">>,
     <<"ratio_weekend_semaine", "difference_pct">>}
MayBeInf ==
    {<<"evolution_hebdomadaire", "taux_croissance_pct">>,
     <<"congestion_cyclable", "depassement_pct">>}

ReportMetrics ==
    {"top_compteurs", "congestion_cyclable", "compteurs_defaillants", "anomalies",
     "profil_jour_type", "chantiers_actifs", "score_criticite_chantiers",
     "evolution_hebdomadaire", "ratio_weekend_semaine", "qualite_service"}

\* a cell holding a day name
DayCell(text) == [dtype |-> "str", state |-> "value", text |-> text]

\* a metric with no row, or with a row of plain values followed by a row holding
\* NaN and infinities where the metric can produce them; the rows of a profile are
\* those of two days
TypedMetric(name, filled) ==
    LET dtypes == MetricDtypes(name)
        plain == [c \in DOMAIN dtypes |->
                    IF c = "jour" THEN DayCell("Monday")
                    ELSE TypedCell(dtypes[c], "value")]
        special == [c \in DOMAIN dtypes |->
                      IF c = "jour" THEN DayCell("Tuesday")
                      ELSE TypedCell(dtypes[c],
                                     IF <<name, c>> \in MayBeNaN THEN "nan"
                                     ELSE IF <<name, c>> \in MayBeInf THEN "inf"
                                     ELSE "value")]
    IN  IF filled THEN [columns |-> DOMAIN dtypes, rows |-> <<plain, special>>]
        ELSE EmptyFrame

\* the metrics mappings: any subset of the metrics the reports read
MetricsMappings ==
    { [name \in present |-> TypedMetric(name, filled)] :
        present \in SUBSET ReportMetrics, filled \in BOOLEAN }

\* the counter readings given to the reports
ReportReadings ==
    {EmptyFrame,
     [columns |-> {"compteur_id", "comptage_horaire"},
      rows |-> << [compteur_id |-> TypedCell("str", "value"),
                   comptage_horaire |-> TypedCell("int64", "value")] >>]}

ReportsInit ==
    /\ m_df \in [comptage : ReportReadings, metrics : MetricsMappings]
    /\ m_param \in [builder : ReportBuilders]
    /\ m_local = Null
    /\ m_result = Null
    /\ pc_metric = "input"

\* one report builder called on the day's readings and metrics
CallReportBuilder ==
    /\ pc_metric = "input"
    /\ m_result' = ReportBuilder(m_param.builder, m_df.comptage, m_df.metrics,
                                 Leaf("str", "date"))
    /\ pc_metric' = "done"
    /\ UNCHANGED <<m_df, m_param, m_local, metricOthers>>

ReportsNext == CallReportBuilder

MetricIdle ==
    /\ m_df = EmptyFrame
    /\ m_param = Null
    /\ m_local = Null
    /\ m_result = Null
    /\ pc_metric = "idle"

-----------------------------------------------------------------------------
(* build_kpis: aggregation.py 360-401 *)

HasDayColumn(df) == "jour" \in df.columns \/ "date" \in df.columns

\* df_copy.rename(columns={old: new})
RenameColumn(df, old, new) ==
    [columns |-> (df.columns \ {old}) \cup {new},
     rows |-> [i \in 1..Len(df.rows) |->
                [c \in (df.columns \ {old}) \cup {new} |->
                    IF c = new THEN df.rows[i][old] ELSE df.rows[i][c]]]]

\* pd.api.types.is_datetime64_any_dtype(df[c]): the column holds timestamps
IsDatetime64(df, c) ==
    /\ \E i \in 1..Len(df.rows) : ~IsNull(df.rows[i][c])
    /\ \A i \in 1..Len(df.rows) :
          IsNull(df.rows[i][c]) \/ "hour" \in DOMAIN df.rows[i][c]

\* the copy of an aggregate with its day column named jour and holding dates
Normalize(df) ==
    LET df_copy == IF "jour" \in df.columns THEN df ELSE RenameColumn(df, "date", "jour")
    IN  IF IsDatetime64(df_copy, "jour")
        THEN [columns |-> df_copy.columns,
              rows |-> [i \in 1..Len(df_copy.rows) |->
                          [c \in df_copy.columns |->
                              IF c = "jour" THEN DtDate(df_copy.rows[i].jour)
                              ELSE df_copy.rows[i][c]]]]
        ELSE df_copy

\* the items of normalized_aggregates, in the order of the mapping
NormalizedAggregates(aggregates) ==
    LET kept == SelectSeq(aggregates,
                    LAMBDA a : ~(Empty(a.df) \/ a.key = "daily_kpis") /\ HasDayColumn(a.df))
    IN  [i \in 1..Len(kept) |-> [key |-> kept[i].key, df |-> Normalize(kept[i].df)]]

\* left.merge(right, how="outer", on="jour", suffixes=("", suffix)): the days of
\* both sides in increasing order; on a day both sides have, every left row with
\* every right row; on a day one side lacks, nulls in the columns of that side;
\* a column of the right that the left has too takes the suffix
OuterMerge(left, right, suffix) ==
    LET shared == (left.columns \cap right.columns) \ {"jour"}
        others == right.columns \ {"jour"}
        columns == left.columns \cup {IF c \in shared THEN c \o suffix ELSE c : c \in others}
        Origin(c) == CHOOSE o \in others : c = IF o \in shared THEN o \o suffix ELSE o
        Joined(l, r) ==
            [c \in columns |->
                IF c \in left.columns
                THEN IF l # Null THEN l[c] ELSE IF c = "jour" THEN r.jour ELSE Null
                ELSE IF r # Null THEN r[Origin(c)] ELSE Null]
        days == SortAscending({left.rows[i].jour.day : i \in 1..Len(left.rows)}
                              \cup {right.rows[i].jour.day : i \in 1..Len(right.rows)})
        Block(day) ==
            LET lrows == SelectSeq(left.rows, LAMBDA r : r.jour.day = day)
                rrows == SelectSeq(right.rows, LAMBDA r : r.jour.day = day)
            IN  IF rrows = <<>> THEN [i \in 1..Len(lrows) |-> Joined(lrows[i], Null)]
                ELSE IF lrows = <<>> THEN [j \in 1..Len(rrows) |-> Joined(Null, rrows[j])]
                ELSE Flatten([i \in 1..Len(lrows) |->
                                [j \in 1..Len(rrows) |-> Joined(lrows[i], rrows[j])]])
    IN  [columns |-> columns,
         rows |-> Flatten([d \in 1..Len(days) |-> Block(days[d])])]

RECURSIVE MergeAll(_, _)
\* the loop of lines 395-399 over the given items
MergeAll(base_df, items) ==
    IF items = <<>> THEN base_df
    ELSE MergeAll(OuterMerge(base_df, Head(items).df, "_" \o Head(items).key),
                  Tail(items))

\* build_kpis whose loop does not skip first_key
BuildKpis_MergeFirstToo(aggregates) ==
    LET normalized_aggregates == NormalizedAggregates(aggregates)
    IN  IF normalized_aggregates = <<>> THEN EmptyFrame
        ELSE MergeAll(normalized_aggregates[1].df, normalized_aggregates)

\* build_kpis
BuildKpis(aggregates) ==
    LET normalized_aggregates == NormalizedAggregates(aggregates)
    IN  IF normalized_aggregates = <<>> THEN EmptyFrame
        ELSE MergeAll(normalized_aggregates[1].df, Tail(normalized_aggregates))

\* the relations over the given columns with at most MaxKpiRows of the given rows
Frames(columns, rows) ==
    {[columns |-> columns, rows |-> seq] : seq \in SeqsUpTo(rows, MaxKpiRows)}

\* the daily aggregates of _build_aggregates (main.py 283-317), by key: the weather
\* one has a datetime64 jour, the counter one a date jour and a secondary key, the
\* validations one a date column named date; an aggregate may be empty
AggregateItems ==
    {[key |-> "weather_daily", df |-> f] :
        f \in Frames({"jour", "tempmax"},
                     [jour : {Stamp(1, 0), Stamp(2, 0)}, tempmax : {Cell(5)}])}
    \cup {[key |-> "comptage_velo_daily", df |-> f] :
        f \in Frames({"compteur_id", "jour", "total_jour"},
                     [compteur_id : {"A", "B"}, jour : {[day |-> 1], [day |-> 2]},
                      total_jour : {Cell(7)}])}
    \cup {[key |-> "validations_daily", df |-> f] :
        f \in Frames({"date", "code_ligne", "total_validations"},
                     [date : {[day |-> 1], [day |-> 3]}, code_ligne : {"L1"},
                      total_validations : {Cell(9)}])}
    \cup {[key |-> "daily_kpis",
           df |-> [columns |-> {"jour", "tempmax"},
                   rows |-> << [jour |-> [day |-> 1], tempmax |-> Cell(5)] >>]]}

\* a mapping has one item per key
KpiInit ==
    /\ k_aggregates \in {seq \in SeqsUpTo(AggregateItems, MaxAggregates) :
                            \A i, j \in 1..Len(seq) : seq[i].key = seq[j].key => i = j}
    /\ k_result = Null
    /\ pc_kpi = "input"

\* aggregates["daily_kpis"] = build_kpis(aggregates)
CallBuildKpis ==
    /\ pc_kpi = "input"
    /\ k_result' = BuildKpis(k_aggregates)
    /\ pc_kpi' = "done"
    /\ UNCHANGED <<k_aggregates, kpiOthers>>

KpiNext == CallBuildKpis

KpiIdle ==
    /\ k_aggregates = <<>>
    /\ k_result = Null
    /\ pc_kpi = "idle"

-----------------------------------------------------------------------------
(* process_day: main.py 283-427, with the aggregations of aggregation.py 36-112 *)

\* frame["gravite"]: severity with "unknown" for a missing one, or for all rows
Gravite(df, row) ==
    IF "severity" \in df.columns /\ ~IsNull(row.severity) THEN row.severity.value
    ELSE "unknown"

\* aggregate_traffic_incidents
AggregateTrafficIncidents(df) ==
    LET days == SortedDays(df.rows, "updated_at")
        gravites == {Gravite(df, df.rows[i]) : i \in 1..Len(df.rows)}
        incident_cols == {"incidents_" \o g : g \in gravites}
        pivot(day) ==
            [c \in incident_cols |->
                Len(SelectSeq(OnDay(df.rows, "updated_at", day),
                              LAMBDA r : "incidents_" \o Gravite(df, r) = c))]
    IN  IF "updated_at" \notin df.columns THEN Raised("ValueError")
        ELSE [columns |-> {"jour", "nb_incidents_total"} \cup incident_cols,
              rows |-> [k \in 1..Len(days) |->
                          [jour |-> [day |-> days[k]],
                           nb_incidents_total |->
                              Len(OnDay(df.rows, "updated_at", days[k]))]
                          @@ pivot(days[k])]]

\* aggregate_weather_daily: the rows are grouped by their timestamp; the four
\* required columns are tested, windspeed is read without a test
AggregateWeatherDaily(df) ==
    LET hours == SortAscending({df.rows[i].datetime.day * 24 + df.rows[i].datetime.hour :
                                  i \in {j \in 1..Len(df.rows) :
                                            ~IsNull(df.rows[j].datetime)}})
        at(h) == SelectSeq(df.rows, LAMBDA r : /\ ~IsNull(r.datetime)
                                               /\ r.datetime.day * 24 + r.datetime.hour = h)
    IN  IF ~({"datetime", "tempmax", "tempmin", "precip"} \subseteq df.columns)
        THEN Raised("ValueError")
        ELSE IF "windspeed" \notin df.columns THEN Raised("KeyError")
        ELSE [columns |-> {"jour", "temperature_max", "temperature_min",
                           "precipitation_mm", "vent_moyen"},
              rows |-> [k \in 1..Len(hours) |->
                          [jour |-> Stamp(hours[k] \div 24, hours[k] % 24),
                           temperature_max |->
                              RatMean(AsRats(Column(at(hours[k]), "tempmax"))),
                           temperature_min |->
                              RatMean(AsRats(Column(at(hours[k]), "tempmin"))),
                           precipitation_mm |-> Sum(Column(at(hours[k]), "precip")),
                           vent_moyen |->
                              RatMean(AsRats(Column(at(hours[k]), "windspeed")))]]]

\* aggregate_comptage_velo: one row per counter and day
AggregateComptageVelo(df) ==
    LET ids == SortedIds({df.rows[i].compteur_id : i \in 1..Len(df.rows)})
        of(id) == SelectSeq(df.rows, LAMBDA r : r.compteur_id = id)
        counts(id, day) == Counts(OnDay(of(id), "date_heure", day))
        perId(id) ==
            [k \in 1..Len(SortedDays(of(id), "date_heure")) |->
                LET day == SortedDays(of(id), "date_heure")[k]
                IN  [compteur_id |-> id,
                     jour |-> [day |-> day],
                     comptage_total |-> Sum(counts(id, day)),
                     comptage_moyen |-> RatMean(AsRats(counts(id, day))),
                     comptage_max |->
                        CHOOSE m \in {counts(id, day)[i] : i \in 1..Len(counts(id, day))} :
                            \A i \in 1..Len(counts(id, day)) : counts(id, day)[i] <= m]]
    IN  IF ~(BaseColumns \subseteq df.columns) THEN EmptyFrame
        ELSE [columns |-> {"compteur_id", "jour", "comptage_total", "comptage_moyen",
                           "comptage_max"},
              rows |-> Flatten([k \in 1..Len(ids) |-> perId(ids[k])])]

\* the aggregate of a source, by the key _build_aggregates files it under
AggregateOf(key, sources) ==
    CASE key = "traffic_daily" -> AggregateTrafficIncidents(sources.traffic)
      [] key = "weather_daily" -> AggregateWeatherDaily(sources.weather)
      [] key = "comptage_velo_daily" -> AggregateComptageVelo(sources.comptage_velo)

\* the source each aggregate is computed from
SourceOf(key) ==
    CASE key = "traffic_daily" -> "traffic"
      [] key = "weather_daily" -> "weather"
      [] key = "comptage_velo_daily" -> "comptage_velo"

\* _build_aggregates: the items of the mapping, that is the aggregates of the sources
\* that have rows, in the order of lines 289-310, then daily_kpis; an exception of an
\* aggregation leaves the function
BuildAggregates(sources) ==
    LET keys == SelectSeq(<<"traffic_daily", "weather_daily", "comptage_velo_daily">>,
                          LAMBDA key : ~Empty(sources[SourceOf(key)]))
        items == [i \in 1..Len(keys) |->
                    [key |-> keys[i], df |-> AggregateOf(keys[i], sources)]]
        failed == SelectSeq(items, LAMBDA item : IsRaised(item.df))
    IN  IF failed # <<>> THEN failed[1].df
        ELSE IF items = <<>> THEN [items |-> <<>>]
        ELSE [items |-> Append(items, [key |-> "daily_kpis", df |-> BuildKpis(items)])]

\* _calculate_correlations: a correlator is called when both its inputs have rows,
\* its result is kept when it has rows (the items of the mapping); an exception leaves
\* the function
CalculateCorrelations(sources) ==
    LET calls ==
            << [key |-> "chantiers_velo",
                called |-> ~Empty(sources.comptage_velo) /\ ~Empty(sources.chantiers),
                first |-> sources.comptage_velo, second |-> sources.chantiers],
               [key |-> "meteo_velo",
                called |-> ~Empty(sources.weather) /\ ~Empty(sources.comptage_velo),
                first |-> sources.weather, second |-> sources.comptage_velo] >>
        result(call) == IF call.key = "chantiers_velo"
                        THEN CorrelateChantiersVelo(call.first, call.second)
                        ELSE CorrelateMeteoVelo(call.first, call.second)
        made == SelectSeq(calls, LAMBDA call : call.called)
        failed == SelectSeq(made, LAMBDA call : IsRaised(result(call)))
        kept == SelectSeq(made, LAMBDA call : ~Empty(result(call)))
    IN  IF failed # <<>> THEN result(failed[1])
        ELSE [items |-> [i \in 1..Len(kept) |->
                            [key |-> kept[i].key, df |-> result(kept[i])]]]

\* the keys of a sequence of items
KeysOf(items) == [i \in 1..Len(items) |-> items[i].key]

\* the sources of a day: a source that was not delivered is an empty relation.  The
\* traffic source has or lacks updated_at, the weather source has or lacks tempmin
\* or windspeed; the bike-share, validation and service-quality sources are not
\* delivered
DaySources ==
    [traffic :
        {EmptyFrame} \cup
        {[columns |-> cols,
          rows |-> << Project([updated_at |-> Stamp(2, 9), severity |-> Cell("high")],
                              cols),
                      Project([updated_at |-> Stamp(2, 10), severity |-> Null], cols) >>] :
            cols \in {{"updated_at", "severity"}, {"updated_at"}, {"severity"}}},
     weather :
        {EmptyFrame} \cup
        {[columns |-> cols,
          rows |-> << Project([datetime |-> Stamp(2, 0), tempmax |-> 10, tempmin |-> 5,
                               precip |-> 1, windspeed |-> 3], cols) >>] :
            cols \in {{"datetime", "tempmax", "tempmin", "precip", "windspeed"},
                      {"datetime", "tempmax", "tempmin", "precip"},
                      {"datetime", "tempmax", "precip", "windspeed"}}},
     comptage_velo :
        {EmptyFrame} \cup
        {[columns |-> BaseColumns, rows |-> rows] :
            rows \in {<< [compteur_id |-> "A", date_heure |-> Stamp(2, 8),
                          comptage_horaire |-> 2] >>,
                      << [compteur_id |-> "A", date_heure |-> Stamp(2, 8),
                          comptage_horaire |-> 2],
                         [compteur_id |-> "B", date_heure |-> Stamp(2, 9),
                          comptage_horaire |-> 3] >>,
                      << [compteur_id |-> "A", date_heure |-> Null,
                          comptage_horaire |-> 2] >>}},
     chantiers :
        {EmptyFrame,
         [columns |-> {"date_debut", "date_fin"},
          rows |-> << [date_debut |-> Stamp(0, 0), date_fin |-> Stamp(9, 0)] >>]}]

ProcessDayInit ==
    /\ m_df \in DaySources
    /\ m_param = [clock |-> Null]
    /\ m_local = [aggregates |-> <<>>, metrics_cityflow |-> <<>>, correlations |-> <<>>]
    /\ m_result = Null
    /\ pc_metric = "process_day"

\* line 402: aggregates = _build_aggregates(api_results, batch_results)
StepBuildAggregates ==
    /\ pc_metric = "process_day"
    /\ LET aggregates == BuildAggregates(m_df)
       IN  IF IsRaised(aggregates)
           THEN /\ m_result' = aggregates
                /\ pc_metric' = "raised"
                /\ UNCHANGED m_local
           ELSE /\ m_local' = [m_local EXCEPT !.aggregates = aggregates.items]
                /\ pc_metric' = "aggregated"
                /\ UNCHANGED m_result
    /\ UNCHANGED <<m_df, m_param, metricOthers>>

\* line 406: cityflow_metrics = _calculate_cityflow_metrics(api_results, batch_results)
StepCalculateCityflowMetrics ==
    /\ pc_metric = "aggregated"
    /\ \E clock \in Clocks(Null) :
          LET cityflow_metrics ==
                  CalculateAllMetrics(m_df.comptage_velo, m_df.chantiers, EmptyFrame,
                                      EmptyFrame, <<>>, clock)
          IN  /\ m_param' = [clock |-> clock.chantiers]
              /\ IF IsRaised(cityflow_metrics)
                 THEN /\ m_result' = cityflow_metrics
                      /\ pc_metric' = "raised"
                      /\ UNCHANGED m_local
                 ELSE /\ m_local' = [m_local EXCEPT !.metrics_cityflow = cityflow_metrics]
                      /\ pc_metric' = "measured"
                      /\ UNCHANGED m_result
    /\ UNCHANGED <<m_df, metricOthers>>

\* line 409: correlations = _calculate_correlations(api_results, batch_results)
StepCalculateCorrelations ==
    /\ pc_metric = "measured"
    /\ LET correlations == CalculateCorrelations(m_df)
       IN  IF IsRaised(correlations)
           THEN /\ m_result' = correlations
                /\ pc_metric' = "raised"
                /\ UNCHANGED m_local
           ELSE /\ m_local' = [m_local EXCEPT !.correlations = correlations.items]
                /\ pc_metric' = "correlated"
                /\ UNCHANGED m_result
    /\ UNCHANGED <<m_df, m_param, metricOthers>>

\* lines 411-427: the output is handed to _materialise_outputs and returned; m_result
\* holds what the processing report lists
StepReturnOutput ==
    /\ pc_metric = "correlated"
    /\ m_result' = [aggregates |-> KeysOf(m_local.aggregates),
                    metrics_cityflow |-> DOMAIN m_local.metrics_cityflow,
                    correlations |-> KeysOf(m_local.correlations)]
    /\ pc_metric' = "returned"
    /\ UNCHANGED <<m_df, m_param, m_local, metricOthers>>

ProcessDayNext ==
    \/ StepBuildAggregates
    \/ StepCalculateCityflowMetrics
    \/ StepCalculateCorrelations
    \/ StepReturnOutput

-----------------------------------------------------------------------------
(* calculate_debit_journalier with its two limits: metrics.py 245-285 *)

DebitStamps == {Null, Stamp(2, 8), Stamp(3, 8), Stamp(4, 8)}

DebitInit ==
    /\ m_df \in { [columns |-> BaseColumns, rows |-> rows] :
                    rows \in SeqsUpTo([compteur_id : {"A", "B"}, date_heure : DebitStamps,
                                       comptage_horaire : {1, 2}], MaxRankRows) }
    /\ m_param \in [top_n_compteurs : {1, 2}, last_n_days : {1, 2}]
    /\ m_local = Null
    /\ m_result = Null
    /\ pc_metric = "input"

\* calculate_debit_journalier(df, top_n_compteurs, last_n_days)
CallDebitJournalier ==
    /\ pc_metric = "input"
    /\ m_result' = CalculateDebitJournalier(m_df, m_param.top_n_compteurs,
                                            m_param.last_n_days)
    /\ pc_metric' = "done"
    /\ UNCHANGED <<m_df, m_param, m_local, metricOthers>>

DebitNext == CallDebitJournalier

-----------------------------------------------------------------------------
(* calculate_top_compteurs with its limit: metrics.py 417-455 *)

TopInit ==
    /\ m_df \in MetricRelations({"A", "B", "C"}, {Null, Stamp(2, 8)}, {1, 2},
                                 {{}, WithCoordinates})
    /\ m_param \in [top_n : {1, 2}]
    /\ m_local = Null
    /\ m_result = Null
    /\ pc_metric = "input"

\* calculate_top_compteurs(df, top_n); m_local keeps top as it is before the
\* coordinates are merged
CallTopCompteurs ==
    /\ pc_metric = "input"
    /\ \E ref \in {<<>>, <<[compteur_id |-> "A",
                            latitude |-> RefCoordinate("A").latitude,
                            longitude |-> RefCoordinate("A").longitude]>>} :
          m_result' = CalculateTopCompteurs(m_df, m_param.top_n, ref)
    /\ m_local' = IF Empty(CalculateDmja(m_df)) THEN Null
                  ELSE [items |-> Ranked(CalculateDmja(m_df).rows, m_param.top_n)]
    /\ pc_metric' = "done"
    /\ UNCHANGED <<m_df, m_param, metricOthers>>

TopNext == CallTopCompteurs

-----------------------------------------------------------------------------
(* OutputWriter and the database part of _materialise_outputs:
   storage.py 135-267, main.py 156-205 *)

\* metric_data.to_json(orient="records") read back by json.loads: one dictionary per
\* row, a null cell as null.  to_json keeps ten decimals, the numbers of the model
\* have none
ToJsonRecords(df) ==
    [i \in 1..Len(df.rows) |->
        [c \in DOMAIN df.rows[i] |->
            IF IsNull(df.rows[i][c]) THEN [json |-> "null"] ELSE df.rows[i][c]]]

\* lines 161-170 of main.py: the non-empty metrics, converted
MetricsForDb(metrics_cityflow) ==
    [name \in {n \in DOMAIN metrics_cityflow : ~Empty(metrics_cityflow[n])} |->
        ToJsonRecords(metrics_cityflow[name])]

\* the metric names of a mapping in the order the loop of write_metrics meets them
ItemsOrder(mapping) == SelectSeq(MetricOrder, LAMBDA name : name \in DOMAIN mapping)

\* coll.replace_one(filter_query, data, upsert=True), and table.put_item(Item=item)
\* on a table whose key is made of the same attributes: the first document that
\* matches the filter is replaced, a document is inserted when none matches
ReplaceOne(coll, keys, data) ==
    LET matching == {i \in 1..Len(coll) : \A k \in keys : coll[i][k] = data[k]}
        first == CHOOSE i \in matching : \A j \in matching : i <= j
    IN  IF matching = {} THEN Append(coll, data)
        ELSE [coll EXCEPT ![first] = data]

\* the document write_metrics builds for one metric (the timestamp is left out)
MetricDocument(date, metric_name, metric_data) ==
    [date |-> date, metric_name |-> metric_name, data |-> metric_data]

\* write_metrics returning True as soon as one write succeeded
WriteMetricsReturn(success_count, total_count) == success_count > 0

\* the metrics and correlations a run of process_day hands over
SavedMetricNames == {"dmja", "top_compteurs"}

RunOutputs ==
    LET dmja(v) == [columns |-> {"compteur_id", "dmja"},
                    rows |-> << [compteur_id |-> Cell("A"), dmja |-> v] >>]
    IN  [metrics_cityflow : [SavedMetricNames -> {EmptyFrame, dmja(Cell(1)), dmja(Null)}],
         correlations : {<<>>, <<"chantiers_velo">>}]

RunDates == {"2025-01-02", "2025-01-03"}

WriterInit ==
    /\ w_is_local \in BOOLEAN
    /\ w_date = Null
    /\ w_outputs = Null
    /\ w_metrics = Null
    /\ w_pending = <<>>
    /\ w_success_count = 0
    /\ w_failed = {}
    /\ w_returned = Null
    /\ db = [metrics |-> <<>>, correlations |-> <<>>, reports |-> <<>>]
    /\ w_run = 0
    /\ pc_writer = "idle"

\* the component when no run is saved
WriterIdle ==
    /\ w_is_local = TRUE
    /\ w_date = Null
    /\ w_outputs = Null
    /\ w_metrics = Null
    /\ w_pending = <<>>
    /\ w_success_count = 0
    /\ w_failed = {}
    /\ w_returned = Null
    /\ db = [metrics |-> <<>>, correlations |-> <<>>, reports |-> <<>>]
    /\ w_run = 0
    /\ pc_writer = "idle"

\* main.py 156-172: _materialise_outputs of a run with a writer, up to the call of
\* write_metrics (made only when a metric is non-empty)
MaterialiseOutputs ==
    /\ pc_writer \in {"idle", "saved"}
    /\ w_run < MaxRuns
    /\ w_run' = w_run + 1
    /\ \E date \in RunDates, outputs \in RunOutputs :
          /\ w_date' = date
          /\ w_outputs' = outputs
          /\ w_metrics' = MetricsForDb(outputs.metrics_cityflow)
          /\ w_pending' = ItemsOrder(MetricsForDb(outputs.metrics_cityflow))
          /\ pc_writer' = IF DOMAIN MetricsForDb(outputs.metrics_cityflow) = {}
                          THEN "returned" ELSE "write_metrics"
    /\ w_success_count' = 0
    /\ w_failed' = {}
    /\ w_returned' = Null
    /\ UNCHANGED <<w_is_local, db, writerOthers>>

\* storage.py 153-180: one turn of the loop of write_metrics; the write of the
\* document succeeds, or fails (an exception of the driver, caught, or a write that
\* is not acknowledged) and leaves the collection as it is
WriteOneMetric ==
    /\ pc_writer = "write_metrics"
    /\ w_pending # <<>>
    /\ \E success \in BOOLEAN :
          IF success
          THEN /\ db' = [db EXCEPT !.metrics =
                            ReplaceOne(@, {"date", "metric_name"},
                                       MetricDocument(w_date, Head(w_pending),
                                                      w_metrics[Head(w_pending)]))]
               /\ w_success_count' = w_success_count + 1
               /\ UNCHANGED w_failed
          ELSE /\ w_failed' = w_failed \cup {Head(w_pending)}
               /\ UNCHANGED <<db, w_success_count>>
    /\ w_pending' = Tail(w_pending)
    /\ UNCHANGED <<w_is_local, w_date, w_outputs, w_metrics, w_returned, w_run,
                   pc_writer, writerOthers>>

\* storage.py 182-183: write_metrics returns
ReturnWriteMetrics ==
    /\ pc_writer = "write_metrics"
    /\ w_pending = <<>>
    /\ w_returned' = [value |-> WriteMetricsReturn(w_success_count,
                                                   Cardinality(DOMAIN w_metrics))]
    /\ pc_writer' = "returned"
    /\ UNCHANGED <<w_is_local, w_date, w_outputs, w_metrics, w_pending, w_success_count,
                   w_failed, db, w_run, writerOthers>>

\* main.py 179-203: the correlations, when there are some, and the reports are
\* written, each in one document replaced by date; each write succeeds or fails
WriteCorrelationsAndReports ==
    /\ pc_writer = "returned"
    /\ \E success_corr \in BOOLEAN, success_report \in BOOLEAN :
          db' = [db EXCEPT
                   !.correlations =
                      IF w_outputs.correlations # <<>> /\ success_corr
                      THEN ReplaceOne(@, {"date"},
                                      [date |-> w_date,
                                       correlations |-> w_outputs.correlations])
                      ELSE @,
                   !.reports =
                      IF success_report
                      THEN ReplaceOne(@, {"date"},
                                      [date |-> w_date,
                                       reports |-> [metrics_cityflow |->
                                                DOMAIN w_outputs.metrics_cityflow,
                                            correlations |-> w_outputs.correlations]])
                      ELSE @]
    /\ pc_writer' = "saved"
    /\ UNCHANGED <<w_is_local, w_date, w_outputs, w_metrics, w_pending, w_success_count,
                   w_failed, w_returned, w_run, writerOthers>>

WriterNext ==
    \/ MaterialiseOutputs
    \/ WriteOneMetric
    \/ ReturnWriteMetrics
    \/ WriteCorrelationsAndReports

-----------------------------------------------------------------------------
(* The two capped detectors side by side: metrics.py 632-707 *)

CapsInit ==
    /\ \/ /\ m_df \in MetricRelations({"A", "B"}, {Stamp(0, 8)}, {0, 2, 3}, {{}})
          /\ m_param \in [function : {"detect_congestion_cyclable"},
                           seuil_pct : {100, 150}, max_results : {1, 500}]
       \/ /\ m_df \in MetricRelations({"A", "B"}, {Stamp(2, 8)}, {0, 1, 2}, {{}})
          /\ m_param \in [function : {"detect_anomalies_zscore"},
                           seuil_zscore : {<<1, 2>>, <<1, 1>>}, max_results : {1, 200}]
    /\ m_local = Null
    /\ m_result = Null
    /\ pc_metric = "input"

\* detect_congestion_cyclable(df, seuil_pct, max_results); m_local keeps the flagged
\* readings as they were before the cap
CallCappedCongestion ==
    /\ pc_metric = "input"
    /\ m_param.function = "detect_congestion_cyclable"
    /\ m_local' = IF Empty(m_df) THEN <<>> ELSE Congestions(m_df, m_param.seuil_pct)
    /\ m_result' = DetectCongestionCyclable(m_df, m_param.seuil_pct, m_param.max_results)
    /\ pc_metric' = "done"
    /\ UNCHANGED <<m_df, m_param, metricOthers>>

\* detect_anomalies_zscore(df, seuil_zscore, max_results); m_local keeps the flagged
\* readings as they were before the cap
CallCappedZscore ==
    /\ pc_metric = "input"
    /\ m_param.function = "detect_anomalies_zscore"
    /\ m_local' = IF Empty(m_df) THEN <<>> ELSE Anomalies(m_df, m_param.seuil_zscore)
    /\ m_result' = DetectAnomaliesZscore(m_df, m_param.seuil_zscore, m_param.max_results)
    /\ pc_metric' = "done"
    /\ UNCHANGED <<m_df, m_param, metricOthers>>

CapsNext == CallCappedCongestion \/ CallCappedZscore

-----------------------------------------------------------------------------
(* The working frames: metrics.py 221-929, aggregation.py 183-401 *)

\* the value of a column assigned on a frame, when only its presence matters
Assigned == [assigned |-> TRUE]

\* input index of a function held by a frame that is the input itself
WorkingFrame_Input(name, index) ==
    LET frame(assigns, needs) == [kind |-> "input", assigns |-> assigns, needs |-> needs]
    IN  CASE name \in {"calculate_debit_journalier", "calculate_dmja"} /\ index = "first" ->
                frame({"date"}, {"date_heure", "compteur_id", "comptage_horaire"})
          [] name = "calculate_profil_jour_type" /\ index = "first" ->
                frame({"datetime", "jour_semaine", "heure"},
                      {"date_heure", "comptage_horaire"})
          [] name = "calculate_heures_pointe" /\ index = "first" ->
                frame({"datetime", "heure"}, {"date_heure", "comptage_horaire"})
          [] name \in {"calculate_taux_disponibilite", "detect_compteurs_defaillants"}
                /\ index = "first" ->
                frame({"datetime"}, {"date_heure", "compteur_id"})
          [] name = "calculate_evolution_temporelle" /\ index = "first" ->
                frame({"datetime", "periode"}, {"date_heure", "comptage_horaire"})
          [] name = "calculate_ratio_weekend_semaine" /\ index = "first" ->
                frame({"datetime", "est_weekend"}, {"date_heure", "comptage_horaire"})
          [] name = "calculate_chantiers_actifs" /\ index = "first" ->
                frame({"date_debut", "date_fin"}, {"date_debut", "date_fin"})
          [] name = "correlate_chantiers_velo" /\ index = "first" ->
                frame({"date"}, {"date_heure", "comptage_horaire"})
          [] name = "correlate_chantiers_velo" /\ index = "second" ->
                frame({"date_debut", "date_fin"}, {"date_debut", "date_fin"})
          [] name = "correlate_meteo_velo" /\ index = "first" ->
                frame({"date"}, {"datetime"})
          [] name = "correlate_meteo_velo" /\ index = "second" ->
                frame({"date"}, {"date_heure"})
          [] name = "build_kpis" /\ index = "first" -> frame({"jour"}, {"jour"})
          [] OTHER -> frame({}, {})

\* the frame a function works on for one of its inputs: a copy of the input
\* (frame = df.copy()) or the input itself, which it then only reads; with the
\* columns it assigns on that frame and the columns the input must have for the
\* assignments to be reached.  A frame rebound before its first assignment
\* (frame = frame.merge(...), df_copy = df_copy.rename(...)) has none
WorkingFrame(name, index) ==
    LET copy(assigns, needs) == [kind |-> "copy", assigns |-> assigns, needs |-> needs]
        reads == [kind |-> "input", assigns |-> {}, needs |-> {}]
    IN  CASE name \in {"calculate_debit_journalier", "calculate_dmja"} /\ index = "first" ->
                copy({"date"}, {"date_heure", "compteur_id", "comptage_horaire"})
          [] name = "calculate_profil_jour_type" /\ index = "first" ->
                copy({"datetime", "jour_semaine", "heure"},
                     {"date_heure", "comptage_horaire"})
          [] name = "calculate_heures_pointe" /\ index = "first" ->
                copy({"datetime", "heure"}, {"date_heure", "comptage_horaire"})
          [] name \in {"calculate_taux_disponibilite", "detect_compteurs_defaillants"}
                /\ index = "first" ->
                copy({"datetime"}, {"date_heure", "compteur_id"})
          [] name = "calculate_evolution_temporelle" /\ index = "first" ->
                copy({"datetime", "periode"}, {"date_heure", "comptage_horaire"})
          [] name = "calculate_ratio_weekend_semaine" /\ index = "first" ->
                copy({"datetime", "est_weekend"}, {"date_heure", "comptage_horaire"})
          [] name \in {"detect_congestion_cyclable", "detect_anomalies_zscore",
                       "calculate_score_criticite_chantiers", "calculate_all_metrics",
                       "correlate_qualite_validations"} /\ index = "first" ->
                copy({}, {})
          [] name = "calculate_chantiers_actifs" /\ index = "first" ->
                copy({"date_debut", "date_fin"}, {"date_debut", "date_fin"})
          [] name = "correlate_chantiers_velo" /\ index = "first" ->
                copy({"date"}, {"date_heure", "comptage_horaire"})
          [] name = "correlate_chantiers_velo" /\ index = "second" ->
                copy({"date_debut", "date_fin"}, {"date_debut", "date_fin"})
          [] name = "correlate_meteo_velo" /\ index = "first" ->
                copy({"date"}, {"datetime"})
          [] name = "correlate_meteo_velo" /\ index = "second" ->
                copy({"date"}, {"date_heure"})
          [] name = "build_kpis" /\ index = "first" -> copy({"jour"}, {"jour"})
          [] name = "build_kpis" /\ index = "second" -> copy({}, {})
          [] OTHER -> reads

\* frame[column] = ... for each of the columns: every row holds a value in them
AssignColumns(df, assigns) ==
    [columns |-> df.columns \cup assigns,
     rows |-> [i \in 1..Len(df.rows) |->
                 [c \in DOMAIN df.rows[i] \cup assigns |->
                     IF c \in assigns THEN Assigned ELSE df.rows[i][c]]]]

\* one input relation of the caller once the function has returned: what the
\* function assigned on a frame that is the input itself is in it
InputAfter(name, index, df) ==
    LET frame == WorkingFrame(name, index)
    IN  IF frame.kind = "copy" \/ IsNull(df) \/ frame.assigns = {} THEN df
        ELSE IF Empty(df) \/ ~(frame.needs \subseteq df.columns) THEN df
        ELSE AssignColumns(df, frame.assigns)

\* the functions that compute from relations
FrameFunctions ==
    MetricFunctions \cup Correlators
    \cup {"calculate_chantiers_actifs", "calculate_score_criticite_chantiers",
          "calculate_qualite_service_aggregate", "calculate_all_metrics", "build_kpis"}

\* counter readings of at most MaxFrameRows rows
FrameReadings ==
    { [columns |-> BaseColumns \cup cols, rows |-> rows] :
        cols \in {{}, WithCoordinates},
        rows \in SeqsUpTo([compteur_id : {"A", "B"}, date_heure : {Null, Stamp(2, 8)},
                           comptage_horaire : {2}], MaxFrameRows) }

\* the inputs with every column the correlator reads
FullRelations(rowset, columns) ==
    { [columns |-> columns, rows |-> rows] : rows \in SeqsUpTo(rowset, MaxFrameRows) }

\* the two inputs of a function; one with a single input has an empty second one
FrameInputs(name) ==
    CASE name \in MetricFunctions -> [first : FrameReadings, second : {EmptyFrame}]
      [] name = "calculate_all_metrics" ->
            [first : FrameReadings, second : RunChantiers]
      [] name \in {"calculate_chantiers_actifs", "calculate_score_criticite_chantiers"} ->
            [first : RunChantiers \ {Null}, second : {EmptyFrame}]
      [] name = "calculate_qualite_service_aggregate" ->
            [first : RunQualite \ {Null}, second : {EmptyFrame}]
      [] name \in Correlators ->
            [first : FullRelations(CorrelatorRows(name)[1], CorrelatorColumns(name)[1]),
             second : FullRelations(CorrelatorRows(name)[2], CorrelatorColumns(name)[2])]
      [] name = "build_kpis" ->
            [first : {a.df : a \in {b \in AggregateItems : b.key = "weather_daily"}},
             second : {a.df : a \in {b \in AggregateItems : b.key = "validations_daily"}}]

\* the call of one function on its inputs
FrameCall(name, first, second, now, ref) ==
    CASE name \in MetricFunctions -> MetricFunction(name, first, now, ref)
      [] name = "calculate_chantiers_actifs" -> CalculateChantiersActifs(first, Null, now)
      [] name = "calculate_score_criticite_chantiers" ->
            CalculateScoreCriticiteChantiers(first)
      [] name = "calculate_qualite_service_aggregate" ->
            CalculateQualiteServiceAggregate(first)
      [] name = "calculate_all_metrics" ->
            CalculateAllMetrics(first, second, Null, Null, ref,
                                [defaillants |-> now, chantiers |-> now])
      [] name = "correlate_chantiers_velo" -> CorrelateChantiersVelo(first, second)
      [] name = "correlate_qualite_validations" ->
            CorrelateQualiteValidations(first, second)
      [] name = "correlate_meteo_velo" -> CorrelateMeteoVelo(first, second)
      [] name = "build_kpis" ->
            BuildKpis(<< [key |-> "weather_daily", df |-> first],
                         [key |-> "validations_daily", df |-> second] >>)

\* m_local keeps the inputs as the caller passed them
FrameInit ==
    /\ m_param \in [function : FrameFunctions]
    /\ m_df \in FrameInputs(m_param.function)
    /\ m_local = m_df
    /\ m_result = Null
    /\ pc_metric = "input"

\* one function called on the caller's relations; m_df is what the caller holds
\* once it has returned
CallOnFrames ==
    /\ pc_metric = "input"
    /\ \E now \in WallClock, ref \in RefTables :
          m_result' = FrameCall(m_param.function, m_df.first, m_df.second, now, ref)
    /\ m_df' = [first |-> InputAfter(m_param.function, "first", m_df.first),
                second |-> InputAfter(m_param.function, "second", m_df.second)]
    /\ pc_metric' = "done"
    /\ UNCHANGED <<m_param, m_local, metricOthers>>

FrameNext == CallOnFrames

-----------------------------------------------------------------------------
(* A reading without a usable date_heure: metrics.py 245-326, 563-629 *)

\* the functions that group the readings by a date derived from date_heure
DatedFunctions ==
    {"calculate_dmja", "calculate_debit_journalier", "calculate_ratio_weekend_semaine",
     "calculate_evolution_temporelle"}

\* the call of one of them, with the defaults of its other arguments except the
\* number of counters kept
DatedFunction(name, df, top_n_compteurs) ==
    CASE name = "calculate_dmja" -> CalculateDmja(df)
      [] name = "calculate_debit_journalier" ->
            CalculateDebitJournalier(df, top_n_compteurs, 60)
      [] name = "calculate_ratio_weekend_semaine" -> CalculateRatioWeekendSemaine(df)
      [] name = "calculate_evolution_temporelle" ->
            CalculateEvolutionTemporelle(df, "semaine")

\* the relation with one more row, before or after the others
WithRow(df, row, position) ==
    [columns |-> df.columns,
     rows |-> IF position = "first" THEN <<row>> \o df.rows ELSE Append(df.rows, row)]

\* readings of at most MaxDatedRows rows, and one more reading whose date_heure
\* is null or does not parse (pd.to_datetime(errors="coerce") gives NaT for both)
NullDateInit ==
    /\ m_df \in { [columns |-> BaseColumns, rows |-> rows] :
                    rows \in SeqsUpTo([compteur_id : {"A", "B"},
                                       date_heure : {Null, Stamp(2, 8), Stamp(4, 8)},
                                       comptage_horaire : {1, 2}], MaxDatedRows) }
    /\ m_param \in [function : DatedFunctions, top_n_compteurs : {1, 2},
                    position : {"first", "last"},
                    row : [compteur_id : {"A", "C"}, date_heure : {Null},
                           comptage_horaire : {1, 5}]]
    /\ m_local = Null
    /\ m_result = Null
    /\ pc_metric = "input"

\* the function on the readings; m_local keeps what it returns
CallWithoutRow ==
    /\ pc_metric = "input"
    /\ m_local' = DatedFunction(m_param.function, m_df, m_param.top_n_compteurs)
    /\ pc_metric' = "base"
    /\ UNCHANGED <<m_df, m_param, m_result, metricOthers>>

\* the function on the readings and the reading without a usable date_heure
CallWithRow ==
    /\ pc_metric = "base"
    /\ m_result' = DatedFunction(m_param.function,
                                 WithRow(m_df, m_param.row, m_param.position),
                                 m_param.top_n_compteurs)
    /\ pc_metric' = "done"
    /\ UNCHANGED <<m_df, m_param, m_local, metricOthers>>

NullDateNext == CallWithoutRow \/ CallWithRow

-----------------------------------------------------------------------------
(* lambda_handler: lambda_function.py 48-163 *)

\* what ENABLE_SOURCES can name: the three sources, one of them not in lower
\* case, and a name that is no source
SourceNames == {"weather", "traffic", "Bikes", "metro"}

\* the sources lambda_handler knows
KnownSources == {"weather", "traffic", "bikes"}

\* src.lower().strip() on the names of the model
Lower(src) == IF src = "Bikes" THEN "bikes" ELSE src

\* not BUCKET: the variable is unset or empty
Falsy(v) == IsNull(v) \/ v.value = ""

\* _http_get: attempts = 1 + max(0, HTTP_RETRIES)
Attempts(retries) == 1 + (IF retries > 0 THEN retries ELSE 0)

\* status = 200 if every result is ok
StatusCode_EveryOk(results) ==
    IF \A i \in 1..Len(results) : results[i].ok THEN 200 ELSE 500

\* status = 200 if any(r.get("ok") for r in results) else 500
StatusCode(results) ==
    IF \E i \in 1..Len(results) : results[i].ok THEN 200 ELSE 500

\* the environment the module reads at import, and a handler not yet invoked
LambdaInit ==
    /\ BUCKET \in {Null, Cell(""), Cell("raw")}
    /\ ENABLE \in SeqsUpTo(SourceNames, MaxSources)
    /\ l_configured \in SUBSET KnownSources
    /\ TRAFFIC_MODE \in {"idfm", "navitia", "tomtom"}
    /\ HTTP_RETRIES \in (0 - 1)..MaxRetries
    /\ l_index = 0
    /\ l_attempts = 0
    /\ l_trace = <<>>
    /\ l_results = <<>>
    /\ l_response = Null
    /\ s3_objects = <<>>
    /\ pc_lambda = "start"

\* the component when the handler is not exercised
LambdaIdle ==
    /\ BUCKET = Null
    /\ ENABLE = <<>>
    /\ l_configured = {}
    /\ TRAFFIC_MODE = "idfm"
    /\ HTTP_RETRIES = 1
    /\ l_index = 0
    /\ l_attempts = 0
    /\ l_trace = <<>>
    /\ l_results = <<>>
    /\ l_response = Null
    /\ s3_objects = <<>>
    /\ pc_lambda = "idle"

\* results.append(result) for the source of the loop, which then goes on with the
\* next source; the trace keeps the attempts made and how the source ended
AppendResult(result, attempts, outcome) ==
    /\ l_results' = Append(l_results, result)
    /\ l_trace' = Append(l_trace, [source |-> result.source, attempts |-> attempts,
                                   outcome |-> outcome])
    /\ l_index' = l_index + 1
    /\ l_attempts' = 0
    /\ pc_lambda' = "loop"

\* lambda_function.py 105-108: the handler is invoked
InvokeHandler ==
    /\ pc_lambda = "start"
    /\ IF Falsy(BUCKET)
       THEN /\ l_response' = [statusCode |-> 500,
                              body |-> << [error |-> "BUCKET_NAME missing"] >>]
            /\ pc_lambda' = "returned"
            /\ UNCHANGED l_index
       ELSE /\ l_index' = 1
            /\ pc_lambda' = "loop"
            /\ UNCHANGED l_response
    /\ UNCHANGED <<BUCKET, ENABLE, l_configured, TRAFFIC_MODE, HTTP_RETRIES, l_attempts,
                   l_trace, l_results, s3_objects, lambdaOthers>>

\* lambda_function.py 110-147: the loop takes the next source; one that is
\* unknown or lacks its configuration gets its result without any request
TakeSource ==
    /\ pc_lambda = "loop"
    /\ l_index <= Len(ENABLE)
    /\ LET s == Lower(ENABLE[l_index])
           refused(error) == AppendResult([source |-> s, ok |-> FALSE, error |-> error],
                                          0, "refused")
       IN  IF s \notin KnownSources THEN refused("unknown source")
           ELSE IF s \notin l_configured THEN refused("configuration missing")
           ELSE IF s = "traffic" /\ TRAFFIC_MODE \notin {"idfm", "navitia"}
                THEN refused("unknown TRAFFIC_MODE")
           ELSE /\ pc_lambda' = "http_get"
                /\ l_attempts' = 0
                /\ UNCHANGED <<l_results, l_trace, l_index>>
    /\ UNCHANGED <<BUCKET, ENABLE, l_configured, TRAFFIC_MODE, HTTP_RETRIES, l_response,
                   s3_objects, lambdaOthers>>

\* lambda_function.py 58-71: one attempt of _http_get.  The response is read, or
\* the request fails with an error _http_get retries (HTTPError, URLError,
\* TimeoutError), raised to the handler after the last attempt, or with another
\* exception, raised at once; the handler records what is raised (149-157)
HttpAttempt ==
    /\ pc_lambda = "http_get"
    /\ LET s == Lower(ENABLE[l_index])
           failed(error) == AppendResult([source |-> s, ok |-> FALSE, error |-> error],
                                         l_attempts + 1, "fetch_error")
       IN  \E outcome \in {"read", "retried_error", "other_error"} :
              CASE outcome = "read" ->
                      /\ pc_lambda' = "write_jsonl"
                      /\ l_attempts' = l_attempts + 1
                      /\ UNCHANGED <<l_results, l_trace, l_index>>
                [] outcome = "retried_error" ->
                      IF l_attempts + 1 < Attempts(HTTP_RETRIES)
                      THEN /\ l_attempts' = l_attempts + 1
                           /\ UNCHANGED <<l_results, l_trace, l_index, pc_lambda>>
                      ELSE failed("HTTP or URL error")
                [] outcome = "other_error" -> failed("exception")
    /\ UNCHANGED <<BUCKET, ENABLE, l_configured, TRAFFIC_MODE, HTTP_RETRIES, l_response,
                   s3_objects, lambdaOthers>>

\* lambda_function.py 99-101: _save_source stores the records under a new key and
\* returns the result of the source; an exception of put_object reaches the
\* handler, which records it (156-157)
WriteJsonl ==
    /\ pc_lambda = "write_jsonl"
    /\ LET s == Lower(ENABLE[l_index])
           key == [source |-> s, object |-> Len(s3_objects) + 1]
       IN  \/ /\ s3_objects' = Append(s3_objects, key)
              /\ AppendResult([source |-> s, ok |-> TRUE, key |-> key],
                              l_attempts, "stored")
           \/ /\ UNCHANGED s3_objects
              /\ AppendResult([source |-> s, ok |-> FALSE, error |-> "exception"],
                              l_attempts, "store_error")
    /\ UNCHANGED <<BUCKET, ENABLE, l_configured, TRAFFIC_MODE, HTTP_RETRIES, l_response,
                   lambdaOthers>>

\* lambda_function.py 159-164: the loop is over
ReturnResponse ==
    /\ pc_lambda = "loop"
    /\ l_index > Len(ENABLE)
    /\ l_response' = [statusCode |-> StatusCode(l_results), body |-> l_results]
    /\ pc_lambda' = "returned"
    /\ UNCHANGED <<BUCKET, ENABLE, l_configured, TRAFFIC_MODE, HTTP_RETRIES, l_index,
                   l_attempts, l_trace, l_results, s3_objects, lambdaOthers>>

LambdaNext == InvokeHandler \/ TakeSource \/ HttpAttempt \/ WriteJsonl \/ ReturnResponse

-----------------------------------------------------------------------------
(* Specifications *)

vars == <<coordVars, fbVars, hashVars, metricVars, kpiVars, writerVars, lambdaVars>>

\* the coordinate resolver on every input of the model
Init == CoordInit /\ FallbackIdle /\ HashIdle /\ MetricIdle /\ KpiIdle /\ WriterIdle /\ LambdaIdle
Spec == Init /\ [][CoordNext]_vars

\* the fallback stage, run after run
InitFallback == FallbackInit /\ CoordIdle /\ HashIdle /\ MetricIdle /\ KpiIdle /\ WriterIdle /\ LambdaIdle
SpecFallback == InitFallback /\ [][FallbackNext]_vars

\* _hash_to_unit and the interpolation, on any digest
InitHash == HashInit /\ CoordIdle /\ FallbackIdle /\ MetricIdle /\ KpiIdle /\ WriterIdle /\ LambdaIdle
SpecHash == InitHash /\ [][HashNext]_vars

\* calculate_dmja on every relation of the model
InitDmja == DmjaInit /\ CoordIdle /\ FallbackIdle /\ HashIdle /\ KpiIdle /\ WriterIdle /\ LambdaIdle
SpecDmja == InitDmja /\ [][DmjaNext]_vars

\* calculate_ratio_weekend_semaine on every relation of the model
InitRatio == RatioInit /\ CoordIdle /\ FallbackIdle /\ HashIdle /\ KpiIdle /\ WriterIdle /\ LambdaIdle
SpecRatio == InitRatio /\ [][RatioNext]_vars

\* detect_anomalies_zscore on every relation, threshold and cap of the model
InitZscore == ZscoreInit /\ CoordIdle /\ FallbackIdle /\ HashIdle /\ KpiIdle /\ WriterIdle /\ LambdaIdle
SpecZscore == InitZscore /\ [][ZscoreNext]_vars

\* build_kpis on every mapping of aggregates of the model
InitKpis == KpiInit /\ CoordIdle /\ FallbackIdle /\ HashIdle /\ MetricIdle /\ WriterIdle /\ LambdaIdle
SpecKpis == InitKpis /\ [][KpiNext]_vars

\* detect_congestion_cyclable on every relation, threshold and cap of the model
InitCongestion == CongestionInit /\ CoordIdle /\ FallbackIdle /\ HashIdle /\ KpiIdle /\ WriterIdle /\ LambdaIdle
SpecCongestion == InitCongestion /\ [][CongestionNext]_vars

\* calculate_chantiers_actifs on every relation and reference date of the model
InitChantiers == ChantiersInit /\ CoordIdle /\ FallbackIdle /\ HashIdle /\ KpiIdle /\ WriterIdle /\ LambdaIdle
SpecChantiers == InitChantiers /\ [][ChantiersNext]_vars

\* process_day on the sources of a day
InitProcessDay == ProcessDayInit /\ CoordIdle /\ FallbackIdle /\ HashIdle /\ KpiIdle /\ WriterIdle /\ LambdaIdle
SpecProcessDay == InitProcessDay /\ [][ProcessDayNext]_vars

\* each report builder on every metrics mapping of the model
InitReports == ReportsInit /\ CoordIdle /\ FallbackIdle /\ HashIdle /\ KpiIdle /\ WriterIdle /\ LambdaIdle
SpecReports == InitReports /\ [][ReportsNext]_vars

\* each correlator on every pair of relations of the model
InitCorrelate == CorrelateInit /\ CoordIdle /\ FallbackIdle /\ HashIdle /\ KpiIdle /\ WriterIdle /\ LambdaIdle
SpecCorrelate == InitCorrelate /\ [][CorrelateNext]_vars

\* calculate_all_metrics run twice on the inputs of a day
InitAllMetrics == AllMetricsInit /\ CoordIdle /\ FallbackIdle /\ HashIdle /\ KpiIdle /\ WriterIdle /\ LambdaIdle
SpecAllMetrics == InitAllMetrics /\ [][AllMetricsNext]_vars

\* every metric function on every relation with or without its columns
InitGuards == GuardsInit /\ CoordIdle /\ FallbackIdle /\ HashIdle /\ KpiIdle /\ WriterIdle /\ LambdaIdle
SpecGuards == InitGuards /\ [][GuardsNext]_vars

\* calculate_debit_journalier on every relation and pair of limits of the model
InitDebit == DebitInit /\ CoordIdle /\ FallbackIdle /\ HashIdle /\ KpiIdle /\ WriterIdle /\ LambdaIdle
SpecDebit == InitDebit /\ [][DebitNext]_vars

\* calculate_top_compteurs on every relation and limit of the model
InitTop == TopInit /\ CoordIdle /\ FallbackIdle /\ HashIdle /\ KpiIdle /\ WriterIdle /\ LambdaIdle
SpecTop == InitTop /\ [][TopNext]_vars

\* the runs of a day saved one after the other by the OutputWriter
InitWriter == WriterInit /\ CoordIdle /\ FallbackIdle /\ HashIdle /\ MetricIdle /\ KpiIdle /\ LambdaIdle
SpecWriter == InitWriter /\ [][WriterNext]_vars

\* the two capped detectors on every relation, threshold and cap of the model
InitCaps == CapsInit /\ CoordIdle /\ FallbackIdle /\ HashIdle /\ KpiIdle /\ WriterIdle /\ LambdaIdle
SpecCaps == InitCaps /\ [][CapsNext]_vars

InitFrame == FrameInit /\ CoordIdle /\ FallbackIdle /\ HashIdle /\ KpiIdle /\ WriterIdle /\ LambdaIdle
SpecFrame == InitFrame /\ [][FrameNext]_vars

InitNullDate == NullDateInit /\ CoordIdle /\ FallbackIdle /\ HashIdle /\ KpiIdle /\ WriterIdle /\ LambdaIdle
SpecNullDate == InitNullDate /\ [][NullDateNext]_vars

InitLambda == LambdaInit /\ CoordIdle /\ FallbackIdle /\ HashIdle /\ MetricIdle /\ KpiIdle /\ WriterIdle
SpecLambda == InitLambda /\ [][LambdaNext]_vars

\* identify_corridors_cyclables on every relation and percentile of the model
InitCorridors == CorridorsInit /\ CoordIdle /\ FallbackIdle /\ HashIdle /\ KpiIdle /\ WriterIdle /\ LambdaIdle
SpecCorridors == InitCorridors /\ [][CorridorsNext]_vars

-----
(* Claims on the CoordinateResolver *)

HasCoordinateColumns(df) == {"latitude", "longitude"} \subseteq df.columns

FullyPopulated(df) ==
    \A i \in 1..Len(df.rows) :
        ~IsNull(df.rows[i].latitude) /\ ~IsNull(df.rows[i].longitude)

C2_PriorCoordinatePreserved ==
    pc_coord = "done" =>
        /\ Len(enriched.rows) = Len(df_comptage.rows)
        /\ \A i \in 1..Len(df_comptage.rows) :
              /\ ~IsNull(df_comptage.rows[i].latitude) =>
                    enriched.rows[i].latitude = df_comptage.rows[i].latitude
              /\ ~IsNull(df_comptage.rows[i].longitude) =>
                    enriched.rows[i].longitude = df_comptage.rows[i].longitude

\* the first snapshot row of an id that has both coordinates
SnapshotCoordinate(id) ==
    FirstMatch(df_bikes, LAMBDA b : /\ b.compteur_id = id
                                    /\ ~IsNull(b.latitude)
                                    /\ ~IsNull(b.longitude))

ReferenceCoordinate(id) == FirstMatch(ref_df, LAMBDA r : r.compteur_id = id)

CarriesNoCoordinate(row) == IsNull(row.latitude) /\ IsNull(row.longitude)

\* C3: a row that carries no coordinate gets the snapshot's coordinates (those of the
\* first snapshot row of its id that has coordinates), else the reference table's,
\* else the synthetic ones.
C3_SourcePriority ==
    pc_coord = "done" =>
        \A i \in 1..Len(df_comptage.rows) :
            CarriesNoCoordinate(df_comptage.rows[i]) =>
                LET id == df_comptage.rows[i].compteur_id
                    snap == SnapshotCoordinate(id)
                    ref == ReferenceCoordinate(id)
                    out == enriched.rows[i]
                IN  IF ~IsNull(snap)
                    THEN out.latitude = snap.latitude /\ out.longitude = snap.longitude
                    ELSE IF ~IsNull(ref)
                    THEN out.latitude = ref.latitude /\ out.longitude = ref.longitude
                    ELSE /\ out.latitude = FallbackLatitude(id)
                         /\ out.longitude = FallbackLongitude(id)

\* C3 witness: an id without coordinates that is twice in the snapshot, with different
\* coordinates, and in the reference table, has been resolved.
C3_Witness ==
    /\ pc_coord = "done"
    /\ \E i \in 1..Len(df_comptage.rows) :
          /\ CarriesNoCoordinate(df_comptage.rows[i])
          /\ ~IsNull(ReferenceCoordinate(df_comptage.rows[i].compteur_id))
          /\ Len(df_bikes) = 2
          /\ df_bikes[1].compteur_id = df_comptage.rows[i].compteur_id
          /\ df_bikes[2].compteur_id = df_comptage.rows[i].compteur_id
          /\ ~IsNull(df_bikes[1].latitude)
          /\ ~IsNull(df_bikes[2].latitude)
          /\ df_bikes[1].latitude # df_bikes[2].latitude
-----------------------------------------------------------------------------
(* Claims on the synthetic fallback *)

\* C4: two rows with the same compteur_id that reach the fallback stage, in the same
\* run or in two separate runs, receive the same latitude and longitude.
C4_FallbackDependsOnIdOnly ==
    pc_fb = "done" =>
        \A i \in 1..Len(fb_frame.rows) :
            MaskMissing(fb_frame.rows[i]) =>
                LET id == fb_frame.rows[i].compteur_id
                    out == fb_result.rows[i]
                IN  /\ \A j \in 1..Len(fb_frame.rows) :
                          (MaskMissing(fb_frame.rows[j]) /\ fb_frame.rows[j].compteur_id = id)
                              => /\ fb_result.rows[j].latitude = out.latitude
                                 /\ fb_result.rows[j].longitude = out.longitude
                    /\ ~IsNull(fb_seen[id]) =>
                          /\ out.latitude = fb_seen[id].latitude
                          /\ out.longitude = fb_seen[id].longitude

\* C4 witness: a second run in which two rows of one id reach the fallback stage, at
\* positions other than the one where an earlier run filled that id.
C4_Witness ==
    /\ pc_fb = "done"
    /\ Len(fb_frame.rows) = 2
    /\ fb_frame.rows[1].compteur_id = "B"
    /\ fb_frame.rows[2].compteur_id = "B"
    /\ MaskMissing(fb_frame.rows[1])
    /\ MaskMissing(fb_frame.rows[2])
    /\ ~IsNull(fb_seen["A"])
    /\ ~IsNull(fb_seen["B"])

\* k * u for a unit value u and a small k >= 0, as limbs (the first limb unbounded)
ScaleUnit(u, k) ==
    LET p4 == k * u[5]
        p3 == k * u[4] + p4 \div Base
        p2 == k * u[3] + p3 \div Base
        p1 == k * u[2] + p2 \div Base
        p0 == k * u[1] + p1 \div Base
    IN  <<p0, p1 % Base, p2 % Base, p3 % Base, p4 % Base>>

\* c < n hundredths of a degree: span * u < (n - base) * 2^64, and the limbs below
\* the first are a fraction of 2^64
CoordBelow(c, n) == ScaleUnit(c.unit, c.span)[1] < n - c.base

\* c >= n hundredths of a degree
CoordAtLeast(c, n) == ScaleUnit(c.unit, c.span)[1] >= n - c.base

\* C5 as stated: _hash_to_unit returns a value in [0,1) for every digest, so the
\* synthetic coordinates satisfy 48.80 <= latitude < 48.90 and 2.25 <= longitude < 2.42.
C5_UnitHalfOpenAndInBox ==
    pc_hash = "done" =>
        /\ UnitBelowOne(h_lat.unit)
        /\ UnitBelowOne(h_lon.unit)
        /\ CoordAtLeast(h_lat, lat_min) /\ CoordBelow(h_lat, lat_max)
        /\ CoordAtLeast(h_lon, lon_min) /\ CoordBelow(h_lon, lon_max)
-----------------------------------------------------------------------------
(* Claims on calculate_dmja *)

\* the input rows of a counter whose date_heure is a timestamp
ValidRowsOf(id) ==
    SelectSeq(m_df.rows, LAMBDA r : r.compteur_id = id /\ ~IsNull(r.date_heure))

DaysOf(id) == {ValidRowsOf(id)[i].date_heure.day : i \in 1..Len(ValidRowsOf(id))}

ResultRowsOf(id) == SelectSeq(m_result.rows, LAMBDA r : r.compteur_id = id)

\* C6: calculate_dmja returns, for each counter, the mean over its days of the
\* per-day sum of comptage_horaire: the total of its readings over the number of its
\* days, which is the total S itself for a counter present on exactly one day.
C6_DmjaIsMeanOfDailySums ==
    pc_metric = "done" =>
        \A id \in {"A", "B"} :
            LET total == Sum(Counts(ValidRowsOf(id)))
                days == Cardinality(DaysOf(id))
                out == ResultRowsOf(id)
            IN  IF days = 0 THEN out = <<>>
                ELSE /\ Len(out) = 1
                     /\ RatEq(out[1].dmja, <<total, days>>)
                     /\ days = 1 => out[1].dmja = <<total, 1>>

\* C6 witness: a counter with two readings, of sum 3, on a single day has dmja 3.
C6_Witness ==
    /\ pc_metric = "done"
    /\ Len(ValidRowsOf("A")) = 2
    /\ Cardinality(DaysOf("A")) = 1
    /\ Len(m_result.rows) = 1
    /\ m_result.rows[1].dmja = <<3, 1>>
-----------------------------------------------------------------------------
(* Claims on identify_corridors_cyclables *)

\* the dmja of a counter of the input: its total over the number of its days
DmjaOf(id) == <<Sum(Counts(ValidRowsOf(id))), Cardinality(DaysOf(id))>>

CountersOfInput == {m_df.rows[i].compteur_id : i \in 1..Len(m_df.rows)}

\* the p-th percentile of the dmja of all counters of the input
SeuilOfInput ==
    LET ids == SortedIds(CountersOfInput)
    IN  Quantile([k \in 1..Len(ids) |-> DmjaOf(ids[k])], m_param.percentile)

\* C9: identify_corridors_cyclables returns exactly the counters whose dmja is
\* strictly greater than the p-th percentile of the dmja of all counters, one row
\* each, in descending order of dmja.
C9_CorridorsStrictlyAbovePercentile ==
    (pc_metric = "done" /\ m_df.rows # <<>>) =>
        /\ \A id \in CountersOfInput :
              IF RatLess(SeuilOfInput, DmjaOf(id))
              THEN /\ Len(ResultRowsOf(id)) = 1
                   /\ RatEq(ResultRowsOf(id)[1].dmja, DmjaOf(id))
              ELSE ResultRowsOf(id) = <<>>
        /\ \A i \in 1..Len(m_result.rows) :
              m_result.rows[i].compteur_id \in CountersOfInput
        /\ \A i, j \in 1..Len(m_result.rows) :
              i < j => ~RatLess(m_result.rows[i].dmja, m_result.rows[j].dmja)

\* C9 witness: three counters, the one of lowest dmja left out, the two others
\* returned in descending order of dmja, which is not the order of their ids.
C9_Witness ==
    /\ pc_metric = "done"
    /\ Cardinality(CountersOfInput) = 3
    /\ Len(m_result.rows) = 2
    /\ m_result.rows[1].compteur_id = "C"
    /\ m_result.rows[2].compteur_id = "B"
    /\ RatLess(m_result.rows[2].dmja, m_result.rows[1].dmja)
-----------------------------------------------------------------------------
(* Claims on calculate_ratio_weekend_semaine *)

\* the readings of the input with a valid time that fall, or not, on a week-end
ReadingsOn(weekend) ==
    SelectSeq(m_df.rows, LAMBDA r : /\ ~IsNull(r.date_heure)
                                    /\ (DayOfWeek(r.date_heure) \in {5, 6}) = weekend)

WeekendTotal == Sum(Counts(ReadingsOn(TRUE)))
WeekdayTotal == Sum(Counts(ReadingsOn(FALSE)))

\* x is a decimal of the given unit nearest to num / den, den > 0
NearestDecimal(x, num, den) ==
    LET diff == x[1] * den - num * x[2]
    IN  2 * (IF diff < 0 THEN -diff ELSE diff) <= den

-----------------------------------------------------------------------------
(* Claims on detect_anomalies_zscore *)

\* the readings of the counter of reading i in the input
PeersOf(i) == SelectSeq(m_df.rows, LAMBDA r : r.compteur_id = m_df.rows[i].compteur_id)

\* n times the deviation of reading i from the mean of its counter
DeviationOf(i) ==
    Len(PeersOf(i)) * m_df.rows[i].comptage_horaire - Sum(Counts(PeersOf(i)))

\* n * n times the sum of the squared deviations of the counter of reading i
SquaresOf(i) ==
    LET n == Len(PeersOf(i))
        total == Sum(Counts(PeersOf(i)))
    IN  Sum([j \in 1..n |-> (n * PeersOf(i)[j].comptage_horaire - total)
                            * (n * PeersOf(i)[j].comptage_horaire - total)])

\* |z| > seuil_zscore for reading i, z = deviation / sample standard deviation:
\* z * z = deviation^2 * (n - 1) / sum of squared deviations
ExceedsThreshold(i) ==
    LET t == m_param.seuil_zscore
    IN  /\ Len(PeersOf(i)) >= 2
        /\ SquaresOf(i) > 0
        /\ DeviationOf(i) * DeviationOf(i) * (Len(PeersOf(i)) - 1) * t[2] * t[2]
              > t[1] * t[1] * SquaresOf(i)

FlaggedReadings ==
    SelectSeq([i \in 1..Len(m_df.rows) |-> i], LAMBDA i : ExceedsThreshold(i))

\* C8: detect_anomalies_zscore flags a reading exactly when |z| > seuil_zscore, z
\* being (value - mean of its counter) / standard deviation of its counter; a
\* reading equal to the mean is never flagged; a flagged reading is labelled
\* pic_exceptionnel when z > 0 and creux_exceptionnel when z < 0; the readings
\* returned are flagged ones, all of them when they are no more than max_results.
C8_FlaggedIffAboveThreshold ==
    pc_metric = "done" =>
        /\ Len(m_local) = Len(FlaggedReadings)
        /\ \A k \in 1..Len(m_local) :
              LET i == FlaggedReadings[k]
              IN  /\ m_local[k].compteur_id = m_df.rows[i].compteur_id
                  /\ m_local[k].date_heure = m_df.rows[i].date_heure
                  /\ m_local[k].comptage_horaire = m_df.rows[i].comptage_horaire
                  /\ DeviationOf(i) # 0
                  /\ DeviationOf(i) > 0 => m_local[k].type_anomalie = "pic_exceptionnel"
                  /\ DeviationOf(i) < 0 => m_local[k].type_anomalie = "creux_exceptionnel"
        /\ \A k \in 1..Len(m_result.rows) :
              \E j \in 1..Len(m_local) : m_result.rows[k] = m_local[j]
        /\ Len(m_local) <= m_param.max_results => m_result.rows = m_local

\* C8 witness: under threshold 3, a reading at more than 4 standard deviations
\* above the mean of its counter is the one reading returned, as pic_exceptionnel.
C8_Witness ==
    /\ pc_metric = "done"
    /\ m_param.seuil_zscore = <<3, 1>>
    /\ Len(m_df.rows) > 1
    /\ Len(m_result.rows) = 1
    /\ m_result.rows[1].type_anomalie = "pic_exceptionnel"
    /\ m_result.rows[1].zscore.sign = 1
    /\ ~RatLess(m_result.rows[1].zscore.sq, <<16, 1>>)

\* the counters whose standard deviation is undefined (one reading) or zero
CountersWithoutSpread ==
    {id \in {m_df.rows[i].compteur_id : i \in 1..Len(m_df.rows)} :
        LET std == Stats(Counts(SelectSeq(m_df.rows, LAMBDA r : r.compteur_id = id))).std
        IN  IsNull(std) \/ std.sq[1] = 0}

\* a zscore that is a number: neither NaN nor an infinity
FiniteZscore(z) == ~IsNull(z) /\ z.sq[2] # 0

\* C26: in detect_anomalies_zscore a counter whose standard deviation is undefined
\* or zero gets z-score 0 on all of its readings, none of them is flagged, and no
\* infinite or NaN z-score appears in the result.
C26_NoSpreadMeansZeroZscore ==
    (pc_metric = "done" /\ ~IsRaised(m_result) /\ ~Empty(m_df)) =>
        /\ \A i \in 1..Len(m_df.rows) :
              m_df.rows[i].compteur_id \in CountersWithoutSpread =>
                  /\ ZscoreFrame(m_df.rows)[i].zscore = [sign |-> 0, sq |-> <<0, 1>>]
                  /\ \A k \in 1..Len(m_local) :
                        m_local[k].compteur_id # m_df.rows[i].compteur_id
        /\ \A k \in 1..Len(m_result.rows) :
              /\ m_result.rows[k].compteur_id \notin CountersWithoutSpread
              /\ FiniteZscore(m_result.rows[k].zscore)

\* a call on a counter of equal readings and a counter of a single reading
C26_Witness ==
    /\ pc_metric = "done"
    /\ ~IsRaised(m_result)
    /\ Len(m_df.rows) = 3
    /\ m_df.rows[1].compteur_id = "A"
    /\ m_df.rows[2].compteur_id = "A"
    /\ m_df.rows[1].comptage_horaire = m_df.rows[2].comptage_horaire
    /\ m_df.rows[3].compteur_id = "B"
    /\ CountersWithoutSpread = {"A", "B"}
    /\ m_result.rows = <<>>
-----------------------------------------------------------------------------
(* Claims on build_kpis *)

\* build_kpis was given one aggregate only, not empty, with a day column
SingleAggregate ==
    /\ Len(k_aggregates) = 1
    /\ k_aggregates[1].key # "daily_kpis"
    /\ k_aggregates[1].df.rows # <<>>
    /\ HasDayColumn(k_aggregates[1].df)

\* the name of the day column of the single aggregate
DayKeyOfInput == IF "jour" \in k_aggregates[1].df.columns THEN "jour" ELSE "date"

\* C10: build_kpis given a single non-empty aggregate returns that aggregate with
\* its day column named jour: the same rows in the same number, each with the day
\* it had and the same values in every other column.
C10_SingleAggregateRoundTrip ==
    (pc_kpi = "done" /\ SingleAggregate) =>
        LET df == k_aggregates[1].df
            kept == df.columns \ {DayKeyOfInput}
        IN  /\ k_result.columns = kept \cup {"jour"}
            /\ Len(k_result.rows) = Len(df.rows)
            /\ \A i \in 1..Len(df.rows) :
                  /\ k_result.rows[i].jour.day = df.rows[i][DayKeyOfInput].day
                  /\ \A c \in kept : k_result.rows[i][c] = df.rows[i][c]

\* C10 witness: the validations aggregate alone, two rows keyed by date, returned
\* as two rows keyed by jour.
C10_Witness ==
    /\ pc_kpi = "done"
    /\ SingleAggregate
    /\ k_aggregates[1].key = "validations_daily"
    /\ Len(k_aggregates[1].df.rows) = 2
    /\ "jour" \in k_result.columns
    /\ "date" \notin k_result.columns
    /\ Len(k_result.rows) = 2
-----------------------------------------------------------------------------
(* Claims on detect_congestion_cyclable *)

\* reading i of the input is strictly above seuil_pct percent of its counter's mean
AboveOwnMean(i) ==
    m_df.rows[i].comptage_horaire * Len(PeersOf(i)) * 100
        > m_param.seuil_pct * Sum(Counts(PeersOf(i)))

CongestedReadings ==
    SelectSeq([i \in 1..Len(m_df.rows) |-> i], LAMBDA i : AboveOwnMean(i))

\* row is reading i with the excess (comptage_horaire / mean - 1) x 100 rounded to 2
\* decimals (the mean not being 0)
IsCongestionOf(row, i) ==
    LET total == Sum(Counts(PeersOf(i)))
        n == Len(PeersOf(i))
        value == m_df.rows[i].comptage_horaire
    IN  /\ row.compteur_id = m_df.rows[i].compteur_id
        /\ row.date_heure = m_df.rows[i].date_heure
        /\ row.comptage_horaire = value
        /\ total > 0 => /\ row.depassement_pct[2] = 100
                        /\ NearestDecimal(row.depassement_pct, 100 * (value * n - total), total)
        /\ total < 0 => /\ row.depassement_pct[2] = 100
                        /\ NearestDecimal(row.depassement_pct, 100 * (total - value * n), -total)

\* C12 as stated: the readings returned are exactly those strictly above seuil_pct
\* percent of their counter's mean, each with its depassement_pct.
C12_ReturnedIffAboveOwnMean ==
    pc_metric = "done" =>
        /\ Len(m_result.rows) = Len(CongestedReadings)
        /\ \A k \in 1..Len(m_result.rows) :
              IsCongestionOf(m_result.rows[k], CongestedReadings[k])

\* C12 amended: the readings flagged are exactly those strictly above seuil_pct
\* percent of their counter's mean, each with depassement_pct = (comptage_horaire /
\* mean - 1) x 100 rounded to 2 decimals; all of them are returned when they are no
\* more than max_results, otherwise max_results of them are, none with a smaller
\* depassement_pct than a flagged reading left out.
C12_FlaggedAboveOwnMeanUpToCap ==
    pc_metric = "done" =>
        /\ Len(m_local) = Len(CongestedReadings)
        /\ \A k \in 1..Len(m_local) : IsCongestionOf(m_local[k], CongestedReadings[k])
        /\ Len(m_local) <= m_param.max_results => m_result.rows = m_local
        /\ Len(m_local) > m_param.max_results =>
              /\ Len(m_result.rows) = m_param.max_results
              /\ \A k \in 1..Len(m_result.rows) :
                    \E j \in 1..Len(m_local) : m_result.rows[k] = m_local[j]
              /\ \A j \in 1..Len(m_local) :
                    \/ \E k \in 1..Len(m_result.rows) : m_result.rows[k] = m_local[j]
                    \/ \A k \in 1..Len(m_result.rows) :
                          ~RatLess(m_result.rows[k].depassement_pct,
                                   m_local[j].depassement_pct)

\* C12 witness: a reading of 500 of a counter whose mean is 100, at threshold 150 %,
\* is returned with depassement_pct = 400.0.
C12_Witness ==
    /\ pc_metric = "done"
    /\ m_param.seuil_pct = 150
    /\ Len(m_result.rows) = 1
    /\ m_result.rows[1].comptage_horaire = 500
    /\ m_result.rows[1].debit_moyen = <<500, 5>>
    /\ m_result.rows[1].depassement_pct = <<40000, 100>>
-----------------------------------------------------------------------------
(* Claims on calculate_chantiers_actifs *)

\* the records of the input whose interval contains the reference date supplied
ContainingReference ==
    SelectSeq(m_df.rows, LAMBDA r : /\ StampLeq(r.date_debut, m_param.date_reference)
                                    /\ StampLeq(m_param.date_reference, r.date_fin))

\* the count the result reports for a zone, 0 when it has no row for it
CountOfZone(z) ==
    Sum([k \in 1..Len(m_result.rows) |->
            IF /\ "arrondissement" \in DOMAIN m_result.rows[k]
               /\ m_result.rows[k].arrondissement = z
            THEN m_result.rows[k].nb_chantiers_actifs ELSE 0])

\* the relation has its two date columns and the caller supplied the reference date
DatedWithReference ==
    /\ {"date_debut", "date_fin"} \subseteq m_df.columns
    /\ ~IsNull(m_param.date_reference)

\* C13: calculate_chantiers_actifs counts, per zone or globally when there is no
\* zone column, exactly the records with date_debut <= reference date <= date_fin,
\* the reference date being the one the caller supplied; a record whose interval
\* does not contain it is never counted.
C13_CountsRecordsContainingReference ==
    (pc_metric = "done" /\ DatedWithReference) =>
        IF "arrondissement" \in m_df.columns
        THEN \A z \in {"11e", "12e"} :
                CountOfZone(z)
                    = Len(SelectSeq(ContainingReference, LAMBDA r : r.arrondissement = z))
        ELSE /\ Len(m_result.rows) = 1
             /\ m_result.rows[1].nb_chantiers_actifs = Len(ContainingReference)

\* C13 witness: a record of zone 11e active from 2025-01-01 through 2025-01-10
\* counted for its zone at reference date 2025-01-05, the clock showing another day.
C13_Witness ==
    /\ pc_metric = "done"
    /\ m_param.date_reference = Stamp(4, 0)
    /\ m_local = Stamp(12, 9)
    /\ "arrondissement" \in m_df.columns
    /\ DatedWithReference
    /\ \E i \in 1..Len(m_df.rows) :
          /\ m_df.rows[i].arrondissement = "11e"
          /\ m_df.rows[i].date_debut = Stamp(0, 0)
          /\ m_df.rows[i].date_fin = Stamp(9, 0)
    /\ CountOfZone("11e") > 0
-----------------------------------------------------------------------------
(* Claims on missing columns *)

\* the columns a metric function reads among compteur_id, date_heure and
\* comptage_horaire
ReadsOf(name) ==
    CASE name \in {"calculate_debit_horaire", "calculate_densite_par_zone"} ->
            {"compteur_id", "comptage_horaire"}
      [] name \in {"calculate_taux_disponibilite", "detect_compteurs_defaillants"} ->
            {"compteur_id", "date_heure"}
      [] name \in {"calculate_profil_jour_type", "calculate_heures_pointe",
                   "calculate_evolution_temporelle", "calculate_ratio_weekend_semaine"} ->
            {"date_heure", "comptage_horaire"}
      [] OTHER -> BaseColumns

\* C14: every counter-reading metric function returns an empty relation and does
\* not raise when a column it reads among compteur_id, date_heure and
\* comptage_horaire is absent from its input.
C14_MissingColumnGivesEmpty ==
    (pc_metric = "done" /\ ~(ReadsOf(m_param.function) \subseteq m_df.columns)) =>
        /\ ~IsRaised(m_result)
        /\ m_result.rows = <<>>
-----------------------------------------------------------------------------
(* Claims on calculate_all_metrics *)

\* C11: calculate_all_metrics run twice on identical inputs returns identical
\* outputs, the reference instant of compteurs_defaillants and chantiers_actifs
\* being an input and not a reading of the clock.
C11_SameInputsSameOutputs ==
    pc_metric = "twice" => m_result = m_local

\* C16: calculate_all_metrics returns, for every counter-reading input including
\* the empty one, a mapping that holds each of the 15 counter-metric names;
\* chantiers_actifs and score_criticite_chantiers exactly when a non-empty
\* public-works relation is given, qualite_service exactly when a non-empty
\* service-quality relation is given.
C16_MappingHoldsEveryCounterMetric ==
    pc_metric # "input" =>
        /\ ~IsRaised(m_result)
        /\ DOMAIN CounterMetrics \subseteq DOMAIN m_result
        /\ \A key \in {"chantiers_actifs", "score_criticite_chantiers"} :
              key \in DOMAIN m_result <=>
                  (~IsNull(m_df.chantiers) /\ ~Empty(m_df.chantiers))
        /\ "qualite_service" \in DOMAIN m_result <=>
              (~IsNull(m_df.qualite) /\ ~Empty(m_df.qualite))
-----------------------------------------------------------------------------
(* Claims on the correlators *)

\* C15: each correlator returns an empty relation and does not raise whenever one
\* of its inputs is empty or lacks a column the correlator reads in it.
C15_EmptyOrMissingGivesEmpty ==
    (/\ pc_metric = "done"
     /\ \/ Empty(m_df.first)
        \/ Empty(m_df.second)
        \/ ~(CorrelatorColumns(m_param.function)[1] \subseteq m_df.first.columns)
        \/ ~(CorrelatorColumns(m_param.function)[2] \subseteq m_df.second.columns)) =>
        /\ ~IsRaised(m_result)
        /\ m_result.rows = <<>>

\* the correlation-coefficient columns of a correlator
CoefficientColumns(name) ==
    CASE name = "correlate_chantiers_velo" -> {"correlation_chantiers_velo"}
      [] name = "correlate_meteo_velo" ->
            {"correlation_temperature", "correlation_precipitation"}
      [] OTHER -> {}

\* C21: every non-empty result of correlate_chantiers_velo and correlate_meteo_velo
\* carries its correlation-coefficient columns, each with the same value on every
\* row, and with exactly one joined day the coefficient is present and undefined
\* (NaN), never 0.
C21_CoefficientBroadcastOnEveryResult ==
    (/\ pc_metric = "done"
     /\ CoefficientColumns(m_param.function) # {}
     /\ ~IsRaised(m_result)
     /\ m_result.rows # <<>>) =>
        /\ CoefficientColumns(m_param.function) \subseteq m_result.columns
        /\ \A c \in CoefficientColumns(m_param.function) :
              /\ \A i \in 1..Len(m_result.rows) : c \in DOMAIN m_result.rows[i]
              /\ \A i, j \in 1..Len(m_result.rows) :
                    m_result.rows[i][c] = m_result.rows[j][c]
              /\ Len(m_result.rows) = 1 => m_result.rows[1][c] = NaN
-----------------------------------------------------------------------------
(* Claims on the rows of build_kpis *)

\* the days an aggregate holds, under whichever name its day column has
DaysOfAggregate(df) ==
    {(IF "jour" \in df.columns THEN df.rows[i].jour ELSE df.rows[i].date).day :
        i \in 1..Len(df.rows)}

\* an aggregate is grouped by its day and its secondary key: one row per group
OneRowPerGroup(df) ==
    LET keys == df.columns \cap {"jour", "date", "compteur_id", "code_ligne"}
    IN  \A i, j \in 1..Len(df.rows) :
            Project(df.rows[i], keys) = Project(df.rows[j], keys) => i = j

\* the aggregates are those _build_aggregates passes: none empty, no daily_kpis yet
BuiltAggregates ==
    /\ k_aggregates # <<>>
    /\ \A i \in 1..Len(k_aggregates) :
          /\ ~Empty(k_aggregates[i].df)
          /\ k_aggregates[i].key # "daily_kpis"
          /\ OneRowPerGroup(k_aggregates[i].df)

\* C17: for non-empty daily aggregates, those with a secondary key included,
\* build_kpis returns a table with exactly one row for each distinct day that
\* appears in any aggregate, and no day is dropped.
C17_OneRowPerDistinctDay ==
    (pc_kpi = "done" /\ BuiltAggregates) =>
        \A day \in UNION {DaysOfAggregate(k_aggregates[i].df) :
                             i \in 1..Len(k_aggregates)} :
            Cardinality({n \in 1..Len(k_result.rows) : k_result.rows[n].jour.day = day})
                = 1
-----------------------------------------------------------------------------
(* Claims on the report builders *)

\* the entries of the documents, by builder: the section of the full report that
\* holds the builder's document, the entry, the metrics it is built from and its
\* empty default
ReportEntries ==
    {<<"generate_resume_executif", "resume_executif", "compteurs_defaillants",
       {"compteurs_defaillants"}, Leaf("int", "0")>>,
     <<"generate_resume_executif", "resume_executif", "evolution_vs_semaine_derniere",
       {"evolution_hebdomadaire"}, Leaf("str", "N/A")>>,
     <<"generate_top_compteurs_report", "top_compteurs", "compteurs",
       {"top_compteurs"}, List(<<>>)>>,
     <<"generate_zones_congestionnees_report", "zones_congestionnees", "zones",
       {"congestion_cyclable"}, List(<<>>)>>,
     <<"generate_compteurs_defaillants_report", "compteurs_defaillants", "compteurs",
       {"compteurs_defaillants"}, List(<<>>)>>,
     <<"generate_alertes_report", "alertes", "alertes",
       {"congestion_cyclable", "anomalies", "compteurs_defaillants"}, List(<<>>)>>,
     <<"generate_profil_jour_type_report", "profil_jour_type", "profils",
       {"profil_jour_type"}, Dict(<<>>)>>,
     <<"generate_chantiers_report", "chantiers", "chantiers_actifs",
       {"chantiers_actifs"}, List(<<>>)>>,
     <<"generate_chantiers_report", "chantiers", "zones_critiques",
       {"score_criticite_chantiers"}, List(<<>>)>>,
     <<"generate_tendances_report", "tendances", "evolution_hebdomadaire",
       {"evolution_hebdomadaire"}, List(<<>>)>>,
     <<"generate_tendances_report", "tendances", "ratio_weekend_semaine",
       {"ratio_weekend_semaine"}, Dict(<<>>)>>,
     <<"generate_qualite_service_report", "qualite_service", "indicateurs",
       {"qualite_service"}, List(<<>>)>>}

\* the entries of the returned document that the given entry description covers
EntryValues(entry) ==
    IF m_param.builder = entry[1] THEN {m_result.items[entry[3]]}
    ELSE IF m_param.builder = "generate_rapport_complet"
    THEN {m_result.items[entry[2]].items[entry[3]]}
    ELSE {}

\* C19: every report builder returns a document and does not raise, whatever
\* subset of the metric names the mapping lacks, and an entry none of whose metrics
\* is in the mapping holds its empty default.
C19_MissingMetricLeavesDefault ==
    pc_metric = "done" =>
        /\ ~IsRaised(m_result)
        /\ \A entry \in ReportEntries :
              entry[4] \cap DOMAIN m_df.metrics = {} =>
                  \A value \in EntryValues(entry) : value = entry[5]

\* the full report built from a mapping that lacks some metrics and holds others:
\* the section of a missing one is empty, that of a present one is filled
C19_Witness ==
    /\ pc_metric = "done"
    /\ m_param.builder = "generate_rapport_complet"
    /\ "congestion_cyclable" \notin DOMAIN m_df.metrics
    /\ "top_compteurs" \in DOMAIN m_df.metrics
    /\ ~IsRaised(m_result)
    /\ m_result.items["zones_congestionnees"].items["zones"] = List(<<>>)
    /\ Len(m_result.items["top_compteurs"].items["compteurs"].items) = 2

\* the Python types JSON has a literal for
JsonScalars == {"str", "int", "float", "bool", "NoneType"}

RECURSIVE IsJsonNative(_)
IsJsonNative(value) ==
    CASE value.kind = "list" ->
            \A i \in 1..Len(value.items) : IsJsonNative(value.items[i])
      [] value.kind = "dict" ->
            \A k \in DOMAIN value.items : IsJsonNative(value.items[k])
      [] OTHER -> value.kind \in JsonScalars

\* C20: every value of the document generate_rapport_complet returns is a string,
\* an integer, a float, a boolean, null, or a list or dict of those: no relation
\* and no numeric or temporal wrapper remains, NaN and infinities are null.
C20_RapportCompletIsJsonNative ==
    (pc_metric = "done" /\ m_param.builder = "generate_rapport_complet"
        /\ ~IsRaised(m_result)) => IsJsonNative(m_result)
-----------------------------------------------------------------------------
(* Claims on process_day *)

\* C18: in process_day a failure of one aggregate, metric or correlation does not
\* abort the run: no exception of these functions leaves process_day.
C18_NoFailureAbortsTheRun ==
    pc_metric # "raised"

-----------------------------------------------------------------------------
(* Claims on calculate_debit_journalier *)

\* the counters and the days of the rows returned
CountersReturned == {m_result.rows[i].compteur_id : i \in 1..Len(m_result.rows)}
DaysReturned == {m_result.rows[i].date.day : i \in 1..Len(m_result.rows)}

\* the total volume of a counter over all the readings given
TotalVolume(id) == Sum(Counts(SelectSeq(m_df.rows, LAMBDA r : r.compteur_id = id)))

\* each returned row is the only one of its (counter, day) and holds the sum of the
\* counts the counter read on that day
OneRowPerCounterDay ==
    \A i \in 1..Len(m_result.rows) :
        /\ \A j \in 1..Len(m_result.rows) :
              (m_result.rows[j].compteur_id = m_result.rows[i].compteur_id /\
               m_result.rows[j].date = m_result.rows[i].date) => j = i
        /\ m_result.rows[i].debit_journalier =
              Sum(Counts(SelectSeq(m_df.rows, LAMBDA r :
                    /\ r.compteur_id = m_result.rows[i].compteur_id
                    /\ ~IsNull(ToDatetime(r.date_heure))
                    /\ ToDatetime(r.date_heure).day = m_result.rows[i].date.day)))

\* the counters returned are among top_n_compteurs counters (all of them when there
\* are fewer) none of which has a smaller total than a counter outside them
TopCountersKept ==
    LET ids == {m_df.rows[i].compteur_id : i \in 1..Len(m_df.rows)}
    IN  /\ Cardinality(CountersReturned) <= m_param.top_n_compteurs
        /\ \E top \in SUBSET ids :
              /\ CountersReturned \subseteq top
              /\ Cardinality(top) <= m_param.top_n_compteurs
              /\ Cardinality(top) = m_param.top_n_compteurs \/ top = ids
              /\ \A kept \in top : \A other \in ids \ top :
                    TotalVolume(other) <= TotalVolume(kept)

\* C22: calculate_debit_journalier returns one row per (counter, day) holding the
\* sum of that day's hourly counts, for at most top_n_compteurs counters (those of
\* largest total volume) and at most last_n_days distinct days (the most recent
\* ones of the retained counters).
C22_TopCountersAndLastDays ==
    (pc_metric = "done" /\ ~IsRaised(m_result)) =>
        /\ OneRowPerCounterDay
        /\ TopCountersKept
        /\ Cardinality(DaysReturned) <= m_param.last_n_days
-----------------------------------------------------------------------------
(* Claims on calculate_top_compteurs *)

\* the counters that have a dmja: those with a reading whose date_heure parsed
CountersWithDmja ==
    {m_df.rows[i].compteur_id :
        i \in {j \in 1..Len(m_df.rows) : ~IsNull(ToDatetime(m_df.rows[j].date_heure))}}

\* the dmja of a counter, from its returned row or else computed as calculate_dmja does
DmjaOfCounter(id) ==
    LET rows == CalculateDmja(m_df).rows
    IN  rows[CHOOSE k \in 1..Len(rows) : rows[k].compteur_id = id].dmja

MinOf(a, b) == IF a < b THEN a ELSE b

\* C23: calculate_top_compteurs returns min(top_n, number of counters) rows, one per
\* counter, ranked 1..that number without gap or repeat, dmja non-increasing with
\* the rank, no counter left out having a dmja greater than a counter kept; the
\* merge of the coordinates adds or removes no row.
C23_RankedTopCounters ==
    (pc_metric = "done" /\ m_param \in [top_n : Nat] /\ ~IsRaised(m_result)) =>
        LET rows == m_result.rows
            kept == {rows[i].compteur_id : i \in 1..Len(rows)}
        IN  /\ Len(rows) = MinOf(m_param.top_n, Cardinality(CountersWithDmja))
            /\ Cardinality(kept) = Len(rows)
            /\ kept \subseteq CountersWithDmja
            /\ \A i \in 1..Len(rows) :
                  /\ rows[i].rang = i
                  /\ rows[i].dmja = DmjaOfCounter(rows[i].compteur_id)
            /\ \A i \in 1..(Len(rows) - 1) : ~RatLess(rows[i].dmja, rows[i + 1].dmja)
            /\ \A out \in CountersWithDmja \ kept : \A in \in kept :
                  ~RatLess(DmjaOfCounter(in), DmjaOfCounter(out))
            /\ ~IsNull(m_local) => Len(rows) = Len(m_local.items)

\* a call that left a counter out, ranked two counters of different dmja and
\* merged the coordinates of the reference table
C23_Witness ==
    /\ pc_metric = "done"
    /\ m_param \in [top_n : Nat]
    /\ ~IsRaised(m_result)
    /\ Len(m_result.rows) = 2
    /\ Cardinality(CountersWithDmja) = 3
    /\ RatLess(m_result.rows[2].dmja, m_result.rows[1].dmja)
    /\ "latitude" \in m_result.columns
-----------------------------------------------------------------------------
(* Claims on the OutputWriter *)

\* C24: write_metrics returns True only if the write of every metric of the mapping
\* succeeded, and False if the write of at least one metric failed.
C24_TrueOnlyIfEveryWriteSucceeded ==
    (pc_writer \in {"returned", "saved"} /\ ~IsNull(w_returned)) =>
        (w_returned.value <=> w_failed = {})

\* the documents of the metrics collection for a date
MetricDocumentsOf(date) == SelectSeq(db.metrics, LAMBDA d : d.date = date)

\* C29: once a run is saved, the metrics store holds for its date exactly one
\* document per non-empty metric of that run, keyed by (date, metric_name), with the
\* data of that run; a later run for the same date replaces the documents, so that
\* the store holds the metrics of the latest run only.
C29_StoreHoldsLatestRunOnly ==
    pc_writer = "saved" =>
        LET docs == MetricDocumentsOf(w_date)
            nonEmpty == {n \in DOMAIN w_outputs.metrics_cityflow :
                            ~Empty(w_outputs.metrics_cityflow[n])}
        IN  /\ {docs[i].metric_name : i \in 1..Len(docs)} = nonEmpty
            /\ Len(docs) = Cardinality(nonEmpty)
            /\ \A i \in 1..Len(docs) :
                  docs[i].data = ToJsonRecords(w_outputs.metrics_cityflow[docs[i].metric_name])
-----------------------------------------------------------------------------
(* Claims on the caps of the detectors *)

\* the size a flagged row is ranked by: depassement_pct, or zscore squared for |zscore|
RankOf(row) ==
    IF m_param.function = "detect_congestion_cyclable" THEN row.depassement_pct
    ELSE row.zscore.sq

\* the readings of a counter in the whole input
AllReadingsOf(id) == Counts(SelectSeq(m_df.rows, LAMBDA r : r.compteur_id = id))

\* the statistics of a returned row are those of all the readings of its counter
StatisticsOverAllReadings(row) ==
    IF m_param.function = "detect_congestion_cyclable"
    THEN RatEq(row.debit_moyen, RatMean(AsRats(AllReadingsOf(row.compteur_id))))
    ELSE /\ RatEq(row.mean, RatMean(AsRats(AllReadingsOf(row.compteur_id))))
         /\ row.std = Stats(AllReadingsOf(row.compteur_id)).std

\* C25: detect_congestion_cyclable and detect_anomalies_zscore return at most
\* max_results rows; when they truncate, each returned row has a depassement_pct
\* (resp. |zscore|) at least that of every flagged row left out; only the flagged
\* output is capped, the mean and std being those of all the input readings.
C25_CapKeepsTheLargest ==
    (pc_metric = "done" /\ "function" \in DOMAIN m_param /\ ~IsRaised(m_result)) =>
        LET rows == m_result.rows
            returned == {rows[i] : i \in 1..Len(rows)}
            flagged == {m_local[i] : i \in 1..Len(m_local)}
        IN  /\ Len(rows) <= m_param.max_results
            /\ Len(rows) = MinOf(Len(m_local), m_param.max_results)
            /\ returned \subseteq flagged
            /\ \A kept \in returned :
                  /\ StatisticsOverAllReadings(kept)
                  /\ \A out \in flagged \ returned : ~RatLess(RankOf(kept), RankOf(out))

\* a call of detect_anomalies_zscore that flagged three readings of two different
\* |zscore| and returned the largest one only
C25_Witness ==
    /\ pc_metric = "done"
    /\ "function" \in DOMAIN m_param
    /\ m_param.function = "detect_anomalies_zscore"
    /\ ~IsRaised(m_result)
    /\ Len(m_local) = 3
    /\ Len(m_result.rows) = 1
    /\ \E i \in 1..3 : RatLess(m_local[i].zscore.sq, m_result.rows[1].zscore.sq)

-----------------------------------------------------------------------------
(* Claims on the input relations *)

\* the functions that assign columns on their working frame of the first input
FunctionsAssigning ==
    {name \in FrameFunctions : WorkingFrame(name, "first").assigns # {}}

\* C27: once a metric function, calculate_all_metrics, a correlator or build_kpis
\* has returned, every relation the caller passed holds the columns and the rows
\* it held before the call
C27_InputRelationsUnchanged ==
    pc_metric = "done" /\ m_param \in [function : FrameFunctions] => m_df = m_local

\* a function that assigns columns on its frame has returned a result computed
\* from readings it was given
C27_Witness ==
    /\ pc_metric = "done"
    /\ m_param \in [function : FrameFunctions]
    /\ m_param.function \in FunctionsAssigning
    /\ ~Empty(m_df.first)
    /\ ~IsRaised(m_result)
    /\ ~Empty(m_result)

-----------------------------------------------------------------------------
(* Claims on a reading without a usable date_heure *)

\* the rows of a result, whatever their order
RowsReturned(result) == {result.rows[i] : i \in 1..Len(result.rows)}

\* the week-end and week totals of calculate_ratio_weekend_semaine; no row, no volume
RatioTotals(result) ==
    IF Empty(result) THEN <<0, 0>>
    ELSE <<result.rows[1].debit_weekend, result.rows[1].debit_semaine>>

\* the total of each period of calculate_evolution_temporelle
PeriodTotals(result) ==
    {<<result.rows[i].periode, result.rows[i].debit_total>> : i \in 1..Len(result.rows)}

\* the null-dated reading leaves the rows of calculate_dmja and of
\* calculate_debit_journalier as they were
NullDatedRowLeavesRows ==
    m_param.function \in {"calculate_dmja", "calculate_debit_journalier"}
        => RowsReturned(m_result) = RowsReturned(m_local)

\* the null-dated reading leaves the top-N set of calculate_debit_journalier as it was
NullDatedRowLeavesTopSet ==
    m_param.function = "calculate_debit_journalier"
        => TopCompteurs(WithRow(m_df, m_param.row, m_param.position).rows,
                        m_param.top_n_compteurs)
           = TopCompteurs(m_df.rows, m_param.top_n_compteurs)

\* the null-dated reading leaves the totals of calculate_ratio_weekend_semaine and
\* of calculate_evolution_temporelle as they were
NullDatedRowLeavesTotals ==
    /\ m_param.function = "calculate_ratio_weekend_semaine"
          => RatioTotals(m_result) = RatioTotals(m_local)
    /\ m_param.function = "calculate_evolution_temporelle"
          => PeriodTotals(m_result) = PeriodTotals(m_local)

\* C28: a reading whose date_heure is null or unparseable never raises and
\* contributes nothing: with it, calculate_dmja and calculate_debit_journalier
\* return the same rows, calculate_debit_journalier keeps the same top-N counters,
\* and calculate_ratio_weekend_semaine and calculate_evolution_temporelle the
\* same totals
C28_NullDatedReadingContributesNothing ==
    pc_metric = "done" /\ ~IsRaised(m_local)
        => /\ ~IsRaised(m_result)
           /\ NullDatedRowLeavesRows
           /\ NullDatedRowLeavesTopSet
           /\ NullDatedRowLeavesTotals

-----------------------------------------------------------------------------
(* Claims on lambda_handler *)

\* one result per enabled source, in the order of ENABLE
OneResultPerSourceInOrder ==
    /\ Len(l_results) = Len(ENABLE)
    /\ \A i \in 1..Len(ENABLE) : l_results[i].source = Lower(ENABLE[i])

\* a source has ok = true exactly when it was fetched and stored; an error of the
\* fetch or of the store gives ok = false
ErrorsRecorded ==
    \A i \in 1..Len(l_results) : l_results[i].ok <=> l_trace[i].outcome = "stored"

\* 200 iff a result has ok = true, else 500
StatusFollowsResults ==
    /\ l_response.statusCode \in {200, 500}
    /\ l_response.statusCode = 200 <=> \E i \in 1..Len(l_results) : l_results[i].ok

\* without a bucket: 500, and no source was taken, requested or stored
NothingAttempted ==
    /\ l_response.statusCode = 500
    /\ l_results = <<>>
    /\ l_trace = <<>>
    /\ s3_objects = <<>>

\* C30 as stated: lambda_handler gives every enabled source its result, in order;
\* a failed fetch, after at most 1 + HTTP_RETRIES attempts, or a failed store is
\* recorded with ok = false and the sources after it are still handled; the
\* status is 200 iff a result has ok = true, else 500; without BUCKET_NAME it
\* returns 500 and attempts nothing
C30_AtMostOnePlusRetriesAttempts ==
    pc_lambda = "returned" =>
        IF Falsy(BUCKET) THEN NothingAttempted
        ELSE /\ OneResultPerSourceInOrder
             /\ ErrorsRecorded
             /\ StatusFollowsResults
             /\ \A i \in 1..Len(l_trace) : l_trace[i].attempts <= 1 + HTTP_RETRIES

\* C30, amended: as above, the attempts of a fetch being at most
\* 1 + max(0, HTTP_RETRIES), that is one attempt when HTTP_RETRIES is negative
C30_SourcesHandledIndependently ==
    pc_lambda = "returned" =>
        IF Falsy(BUCKET) THEN NothingAttempted
        ELSE /\ OneResultPerSourceInOrder
             /\ ErrorsRecorded
             /\ StatusFollowsResults
             /\ \A i \in 1..Len(l_trace) :
                   l_trace[i].attempts <= 1 + (IF HTTP_RETRIES > 0 THEN HTTP_RETRIES ELSE 0)

\* the fetch of the first source failed on its last attempt, a retry, and the
\* second source was then fetched and stored: 200
C30_Witness ==
    /\ pc_lambda = "returned"
    /\ ~Falsy(BUCKET)
    /\ Len(l_results) = 2
    /\ l_trace[1].outcome = "fetch_error"
    /\ l_trace[1].attempts = 2
    /\ l_results[2].ok
    /\ l_response.statusCode = 200

====
